---- MODULE Spec2Model ----
(***************************************************************************)
(* A model of roadtrip-cache: the process lock on root/.lock               *)
(* (src/roadtrip-cache/src/lock.rs) and the capacity-bounded LRU cache of  *)
(* grouped files (src/roadtrip-cache/src/lib.rs).                          *)
(*                                                                         *)
(* The specifications share the variables:                                 *)
(*   SpecLock     several Cache::new / drop(Cache) calls racing on one     *)
(*                root, at the granularity of the system calls of lock.rs; *)
(*   Spec         one live Cache over an initially empty root, one process *)
(*                calling entry and insert_with, every I/O step            *)
(*                succeeding, all within one tick of the system clock;     *)
(*   SpecLife     the same with the clock ticking and the Cache dropped    *)
(*                and built again over what it left on disk;               *)
(*   SpecRecover  Cache::new over a root populated from outside, then      *)
(*                lookups and inserts;                                     *)
(*   SpecPath     entry and insert_with given arbitrary strings as key     *)
(*                and name;                                                *)
(*   SpecRelease  SpecLock with a remove_file that may fail;               *)
(*   SpecFail     Spec with every step of insert_with liable to fail;      *)
(*   SpecTasks    two tasks on one Cache, interleaved at the awaits of     *)
(*                entry and insert_with;                                   *)
(*   SpecShare    SpecLife without the clock, a second process trying for  *)
(*                the lock of the root;                                    *)
(*   SpecRace     two tasks that hold their VacantEntry handles and call   *)
(*                insert_with only;                                        *)
(*   SpecRecency  Spec under a clock that moves on between the calls;      *)
(*   SpecConstruct  Cache::new with a scan that may fail, a second process *)
(*                trying for the lock of the root;                         *)
(*   SpecWalkDir  the stream of roadtrip-walkdir                           *)
(*                (src/roadtrip-walkdir/src/lib.rs) over small trees;      *)
(*   SpecFailFair, SpecWalkDirFair  SpecFail and SpecWalkDir with the      *)
(*                caller going on for as long as a step is possible.       *)
(*                                                                         *)
(* Modification times are written by entry and insert_with and read only   *)
(* by the recovery scan of Cache::new; a running Cache never reads one.    *)
(***************************************************************************)
EXTENDS Integers, Sequences, FiniteSets, TLC

(***************************************************************************)
(* Bounds                                                                  *)
(***************************************************************************)
\* Cache instances (each its own open file description of root/.lock).
NumInst == 3
\* Inodes the file system hands out for root/.lock over one run.
MaxIno == 3
\* Largest capacity handed to Cache::new.
MaxCap == 2
\* Longest content a writer writes, in bytes.
MaxLen == 2
\* Last tick of the system clock.
MaxClock == 2
\* Longest string tried on check_path, in characters.
MaxStr == 3

VARIABLES
    \* ---- root/.lock and the instances racing for it (lock.rs) ----
    lockPath,   \* the inode linked at root/.lock, or NoIno
    nextIno,    \* the next inode number the file system hands out
    flock,      \* inode -> the instance holding its exclusive flock, or 0
    pc,         \* instance -> where it is in Cache::new / drop
    fd,         \* instance -> the inode its open File refers to, or NoIno
    res,        \* instance -> the result of its last Cache::new
    liveDuring, \* instance -> the instances live from the start of its last Cache::new
                \*             to its end
    others,     \* instance -> TRUE when another instance was in Cache::new, live or
                \*             in drop at some time during its last Cache::new
    \* ---- one live Cache (lib.rs) ----
    capacity,   \* Cache.capacity
    dirs,       \* the keys whose directory root/<key> exists
    files,      \* the files root/<key>/<name>: [key, name, bytes, mtime]
    strays,     \* what else lies under the root: [path, kind]
    clock,      \* the system time, in ticks
    items,      \* Cache.items: the LinkedHashMap, oldest first, of [key, size]
    before,     \* Cache.items of the Cache dropped last, until the next is built
    vacant,     \* the keys a live VacantEntry handle refers to
    written,    \* key -> the (name, bytes) pairs written since root/<key> was last created
    last,       \* the last operation: what it was given and what it did
    \* ---- one WalkDir and the tree it walks (roadtrip-walkdir) ----
    tree,       \* the objects of the file system: [path, kind, target]
    visited,    \* WalkDir.visited: the canonical paths handed to step_file or step_dir
    unvisited,  \* WalkDir.unvisited: the queued paths, [path, kind]
    yielded,    \* the items the stream has yielded, in order: [path, is_dir]
    stream,     \* "open", or "ended" once the stream has returned None
    \* ---- tasks sharing one Cache ----
    task,       \* task -> the call it is in, where in it, and what it returned last
    mutex,      \* the task holding the Mutex of Cache.items, or 0
    unlinked    \* the tasks whose open file was removed from its directory

vars == <<lockPath, nextIno, flock, pc, fd, res, liveDuring, others,
          capacity, dirs, files, strays, clock, items, before, vacant, written,
          last, tree, visited, unvisited, yielded, stream, task, mutex, unlinked>>

lockVars == <<lockPath, nextIno, flock, pc, fd, res, liveDuring, others>>
cacheVars == <<capacity, dirs, files, strays, clock, items, before, vacant,
               written, last>>
walkVars == <<tree, visited, unvisited, yielded, stream>>
taskVars == <<task, mutex, unlinked>>

(***************************************************************************)
(* ProcessLock: lock.rs                                                    *)
(***************************************************************************)
Inst == 1..NumInst
NoIno == 0
Inodes == 1..MaxIno

\* The instances whose Cache::new returned Ok and that have not been dropped.
Live == {i \in Inst : pc[i] = "live"}

\* OpenOptions::new().write(true).create(true).open(path): open root/.lock,
\* creating it (a fresh inode) when no file is linked there.
OpenOrCreate(i) ==
    /\ pc[i] = "idle"
    /\ IF lockPath = NoIno
       THEN /\ nextIno <= MaxIno
            /\ lockPath' = nextIno
            /\ nextIno' = nextIno + 1
            /\ fd' = [fd EXCEPT ![i] = nextIno]
       ELSE /\ fd' = [fd EXCEPT ![i] = lockPath]
            /\ UNCHANGED <<lockPath, nextIno>>
    /\ pc' = [pc EXCEPT ![i] = "opened"]
    /\ res' = [res EXCEPT ![i] = "none"]
    /\ liveDuring' = [liveDuring EXCEPT ![i] = Live]
    /\ others' = [j \in Inst |->
                    IF j = i THEN \E o \in Inst \ {i} : pc[o] # "idle"
                    ELSE IF pc[j] = "opened" THEN TRUE
                    ELSE others[j]]
    /\ UNCHANGED flock
    /\ UNCHANGED <<cacheVars, walkVars, taskVars>>

\* FdLock::try_lock: flock(fd, LOCK_EX | LOCK_NB) on the opened inode.
\* Taken: the guard is stored, Lock::new and Cache::new return Ok.
TryLockAcquired(i) ==
    /\ pc[i] = "opened"
    /\ flock[fd[i]] = 0
    /\ flock' = [flock EXCEPT ![fd[i]] = i]
    /\ pc' = [pc EXCEPT ![i] = "live"]
    /\ res' = [res EXCEPT ![i] = "Ok"]
    /\ UNCHANGED <<lockPath, nextIno, fd, liveDuring, others>>
    /\ UNCHANGED <<cacheVars, walkVars, taskVars>>

\* Held by another open file description: Error::AlreadyLocked. Inner is
\* dropped with a null guard, which closes the file; no Lock was built, so
\* nothing is removed.
\* (faulty variant: the failed Lock::new removes root/.lock as a drop does)
TryLockRefusedRemoves(i) ==
    /\ pc[i] = "opened"
    /\ flock[fd[i]] # 0
    /\ lockPath' = NoIno
    /\ pc' = [pc EXCEPT ![i] = "idle"]
    /\ fd' = [fd EXCEPT ![i] = NoIno]
    /\ res' = [res EXCEPT ![i] = "AlreadyLocked"]
    /\ UNCHANGED <<nextIno, flock, liveDuring, others>>
    /\ UNCHANGED <<cacheVars, walkVars, taskVars>>
TryLockRefused(i) ==
    /\ pc[i] = "opened"
    /\ flock[fd[i]] # 0
    /\ pc' = [pc EXCEPT ![i] = "idle"]
    /\ fd' = [fd EXCEPT ![i] = NoIno]
    /\ res' = [res EXCEPT ![i] = "AlreadyLocked"]
    /\ UNCHANGED <<lockPath, nextIno, flock, liveDuring, others>>
    /\ UNCHANGED <<cacheVars, walkVars, taskVars>>

\* Drop for Lock, first half: drop(inner) frees the guard (unlock) and
\* closes the file.
\* (faulty variant: the guard is not freed)
UnlockKeeps(i) ==
    /\ pc[i] = "live"
    /\ fd' = [fd EXCEPT ![i] = NoIno]
    /\ pc' = [pc EXCEPT ![i] = "unlocked"]
    /\ liveDuring' = [j \in Inst |->
                        IF pc[j] = "opened" THEN liveDuring[j] \ {i}
                        ELSE liveDuring[j]]
    /\ UNCHANGED <<lockPath, nextIno, flock, res, others>>
Unlock(i) ==
    /\ pc[i] = "live"
    /\ flock' = [flock EXCEPT ![fd[i]] = 0]
    /\ fd' = [fd EXCEPT ![i] = NoIno]
    /\ pc' = [pc EXCEPT ![i] = "unlocked"]
    /\ liveDuring' = [j \in Inst |->
                        IF pc[j] = "opened" THEN liveDuring[j] \ {i}
                        ELSE liveDuring[j]]
    /\ UNCHANGED <<lockPath, nextIno, res, others>>
DropUnlock(i) ==
    /\ Unlock(i)
    /\ UNCHANGED <<cacheVars, walkVars, taskVars>>

\* Drop for Lock, second half: std::fs::remove_file(&self.path).ok() unlinks
\* whatever is linked at root/.lock now.
DropRemove(i) ==
    /\ pc[i] = "unlocked"
    /\ lockPath' = NoIno
    /\ pc' = [pc EXCEPT ![i] = "idle"]
    /\ UNCHANGED <<nextIno, flock, fd, res, liveDuring, others>>
    /\ UNCHANGED <<cacheVars, walkVars, taskVars>>

\* Drop for Lock, second half, when remove_file returns an error: .ok()
\* discards it and root/.lock stays.
DropRemoveFails(i) ==
    /\ pc[i] = "unlocked"
    /\ pc' = [pc EXCEPT ![i] = "idle"]
    /\ UNCHANGED <<lockPath, nextIno, flock, fd, res, liveDuring, others>>
    /\ UNCHANGED <<cacheVars, walkVars, taskVars>>

LockInit ==
    /\ lockPath = NoIno
    /\ nextIno = 1
    /\ flock = [n \in Inodes |-> 0]
    /\ pc = [i \in Inst |-> "idle"]
    /\ fd = [i \in Inst |-> NoIno]
    /\ res = [i \in Inst |-> "none"]
    /\ liveDuring = [i \in Inst |-> {}]
    /\ others = [i \in Inst |-> FALSE]

(***************************************************************************)
(* Cache: lib.rs                                                           *)
(***************************************************************************)
\* Keys and file names that pass check_path.
Keys == {"one", "two", "three"}
Names == {"file0", "file1"}
\* The bytes a writer writes. Cache handles a content only through its
\* length and its position on disk, so one byte value is enough to tell
\* every content of the model from every other.
Byte == {"x"}

RECURSIVE SeqsUpTo(_, _)
SeqsUpTo(S, n) ==
    IF n = 0 THEN {<<>>}
    ELSE LET shorter == SeqsUpTo(S, n - 1)
         IN  shorter \cup {Append(q, b) : q \in shorter, b \in S}

\* What a writer may write into the file it is handed.
Contents == SeqsUpTo(Byte, MaxLen)

\* ---- the LinkedHashMap<PathBuf, u64>, oldest first ----
KeysOf(m) == {m[i].key : i \in DOMAIN m}
Has(m, k) == k \in KeysOf(m)
RECURSIVE Without(_, _)
Without(m, k) ==
    IF m = <<>> THEN <<>>
    ELSE IF Head(m).key = k THEN Without(Tail(m), k)
    ELSE <<Head(m)>> \o Without(Tail(m), k)
SizeOf(m, k) == LET i == CHOOSE i \in DOMAIN m : m[i].key = k IN m[i].size

\* map.values().sum()
RECURSIVE Sum(_)
Sum(m) == IF m = <<>> THEN 0 ELSE Head(m).size + Sum(Tail(m))

\* LinkedHashMap::get_refresh: a key that is present moves to the back, its
\* value kept.
\* (faulty variant: a get that does not refresh)
GetRefreshLeaves(m, k) == m
\* (faulty variant: the key is taken out of the map)
GetRefreshDrops(m, k) == Without(m, k)
GetRefresh(m, k) ==
    IF Has(m, k) THEN Append(Without(m, k), [key |-> k, size |-> SizeOf(m, k)])
    ELSE m

\* *map.entry(path).or_insert(0) += new_sz: a key that is present keeps its
\* place and grows; an absent key is appended at the back.
\* (faulty variant: = in place of +=)
UpsertOverwrites(m, path, new_sz) ==
    IF Has(m, path)
    THEN [i \in DOMAIN m |->
            IF m[i].key = path THEN [key |-> path, size |-> new_sz] ELSE m[i]]
    ELSE Append(m, [key |-> path, size |-> new_sz])
Upsert(m, path, new_sz) ==
    IF Has(m, path)
    THEN [i \in DOMAIN m |->
            IF m[i].key = path
            THEN [key |-> path, size |-> m[i].size + new_sz]
            ELSE m[i]]
    ELSE Append(m, [key |-> path, size |-> new_sz])

\* Cache::insert, lines 370-374: the room left, saturating at 0.
\* (faulty variant: the size in use is not subtracted)
AvailableOfCapacity(cap, size) == cap
Available(cap, size) == IF cap >= size THEN cap - size ELSE 0

\* Cache::insert, line 388: the entry being written into is passed over.
\* (faulty variant: the entry being written into is not passed over)
IsSelfNever(key, path) == FALSE
IsSelf(key, path) == key = path

\* Cache::insert, line 382: the pass goes on while removed < missing.
\* (faulty variant: the pass stops at the first bytes it frees)
GoesOnOnce(removed, missing) == removed = 0
GoesOn(removed, missing) == removed < missing

\* Cache::insert, lines 380-394: the keys the eviction pass removes, in the
\* order it removes them. entries is what map.entries() has left to yield.
RECURSIVE EvictPass(_, _, _, _)
EvictPass(entries, path, missing, removed) ==
    IF ~GoesOn(removed, missing) THEN <<>>
    ELSE IF entries = <<>> THEN <<>>
    ELSE LET entry == Head(entries)
         IN  IF IsSelf(entry.key, path)
             THEN EvictPass(Tail(entries), path, missing, removed)
             ELSE <<entry.key>>
                  \o EvictPass(Tail(entries), path, missing, removed + entry.size)

\* Cache::insert, line 393: entry.remove() for each evicted key.
\* (faulty variant: the evicted keys stay in the index)
WithoutAllKeeps(m, ks) == m
RECURSIVE WithoutAll(_, _)
WithoutAll(m, ks) ==
    IF ks = <<>> THEN m ELSE WithoutAll(Without(m, Head(ks)), Tail(ks))

Range(q) == {q[i] : i \in DOMAIN q}

\* Cache::insert(path, new_sz): [ok, evicted, items].
\* (faulty variant: a file longer than the capacity is refused)
InsertRefusesLarge(cap, m, path, new_sz) ==
    IF new_sz > cap
    THEN [ok |-> FALSE, evicted |-> <<>>, items |-> m]
    ELSE [ok |-> TRUE, evicted |-> <<>>, items |-> Upsert(m, path, new_sz)]
Insert(cap, m, path, new_sz) ==
    LET size == Sum(m)
        available == Available(cap, size)
        evicted == IF available < new_sz
                   THEN EvictPass(m, path, new_sz - available, 0)
                   ELSE <<>>
    IN  [ok |-> TRUE,
         evicted |-> evicted,
         items |-> Upsert(WithoutAll(m, evicted), path, new_sz)]

\* The files of root/<key>.
FilesIn(k) == {f \in files : f.key = k}
\* What an OccupiedEntry hands out: each regular file of the directory, by
\* name, with the bytes a read of it returns.
\* (faulty variant: empty files are left out)
EntryFilesNonEmpty(k) == {<<f.name, f.bytes>> : f \in {g \in FilesIn(k) : g.bytes # <<>>}}
EntryFiles(k) == {<<f.name, f.bytes>> : f \in FilesIn(k)}

\* The place of key k in the index, 1 the oldest; 0 when the index lacks it.
PosOf(m, k) == IF Has(m, k) THEN CHOOSE i \in DOMAIN m : m[i].key = k ELSE 0

NoOp == [op |-> "new", key |-> "", name |-> "", sz |-> 0, res |-> "Ok", pos |-> 0,
         evicted |-> <<>>, got |-> {}]

\* No Cache to call: none was built yet or it was dropped, Cache::new
\* returned an error, or the panic of line 316 aborted the process.
Failures == {"Structure", "Canonicalize", "WalkDir", "Size"}
Stopped == {"panic", "Closed"} \cup Failures
Running == last.res \notin Stopped

\* occupied_entry, lines 270-303: every regular file of root/<key> gets the
\* modification time now.
Touched(k, now) ==
    {IF f.key = k THEN [f EXCEPT !.mtime = now] ELSE f : f \in files}

\* Cache::entry(key) when root/<key> exists: occupied_entry. The files are
\* opened, stamped with the time and handed out; the key moves to the back
\* of the index; a key the index does not hold is the panic of line 316.
EntryOccupied(k) ==
    /\ Running
    /\ k \in dirs
    /\ files' = Touched(k, clock)
    /\ items' = GetRefresh(items, k)
    /\ last' = [op |-> "entry", key |-> k, name |-> "", sz |-> 0,
                res |-> IF Has(items, k) THEN "Occupied" ELSE "panic",
                pos |-> PosOf(items, k), evicted |-> <<>>, got |-> EntryFiles(k)]
    /\ UNCHANGED <<capacity, dirs, strays, clock, before, vacant, written>>
    /\ UNCHANGED <<lockVars, walkVars, taskVars>>

\* Cache::entry(key) when root/<key> does not exist: vacant_entry.
\* (faulty variant: the lookup creates the directory)
EntryVacantCreates(k) ==
    /\ Running
    /\ k \notin dirs
    /\ dirs' = dirs \cup {k}
    /\ vacant' = vacant \cup {k}
    /\ last' = [op |-> "entry", key |-> k, name |-> "", sz |-> 0, res |-> "Vacant",
                pos |-> PosOf(items, k), evicted |-> <<>>, got |-> {}]
    /\ UNCHANGED <<capacity, files, strays, clock, items, before, written>>
    /\ UNCHANGED <<lockVars, walkVars, taskVars>>
EntryVacant(k) ==
    /\ Running
    /\ k \notin dirs
    /\ vacant' = vacant \cup {k}
    /\ last' = [op |-> "entry", key |-> k, name |-> "", sz |-> 0, res |-> "Vacant",
                pos |-> PosOf(items, k), evicted |-> <<>>, got |-> {}]
    /\ UNCHANGED <<capacity, dirs, files, strays, clock, items, before, written>>
    /\ UNCHANGED <<lockVars, walkVars, taskVars>>

\* OpenOptions::new().create_new(true), lines 98-103: the file is created
\* only where the directory holds no file of that name.
\* (faulty variant: a file of that name is no obstacle)
CreateNewAlways(k, name) == TRUE
CreateNew(k, name) == ~\E f \in files : f.key = k /\ f.name = name

\* VacantEntry::insert_with(name, f), every step succeeding: the directory is
\* created if absent, the file is created (the name is new in the entry) and
\* written (b is what f writes, the write stamps the file with the time),
\* its length is read back and registered with Cache::insert, which removes
\* the directories it evicts with all they hold. A refused registration
\* (InsertError::Reserve) leaves the file and the index as is.
InsertWith(k, n, b) ==
    /\ Running
    /\ k \in vacant
    /\ CreateNew(k, n)
    /\ \E r \in {Insert(capacity, items, k, Len(b))} :
       \E gone \in {Range(r.evicted)} :
           /\ dirs' = (dirs \cup {k}) \ gone
           /\ files' = {f \in files \cup {[key |-> k, name |-> n, bytes |-> b,
                                             mtime |-> clock]} :
                          f.key \notin gone}
           /\ strays' = {o \in strays : o.path[1] \notin gone}
           /\ items' = r.items
           /\ written' = [j \in Keys |->
                            IF j \in gone THEN {}
                            ELSE IF j = k
                            THEN (IF k \in dirs THEN written[k] ELSE {})
                                 \cup {<<n, b>>}
                            ELSE written[j]]
           /\ last' = [op |-> "insert_with", key |-> k, name |-> n, sz |-> Len(b),
                       res |-> IF r.ok THEN "Ok" ELSE "Reserve",
                       pos |-> PosOf(items, k), evicted |-> r.evicted, got |-> {}]
    /\ UNCHANGED <<capacity, clock, before, vacant>>
    /\ UNCHANGED <<lockVars, walkVars, taskVars>>

\* ---- check_path, lines 402-409 ----
\* str::chars of the strings the model hands to entry and insert_with.
Chars(str) ==
    CASE str = "" -> <<>>
      [] str = "." -> <<".">>
      [] str = ".." -> <<".", ".">>
      [] str = ".lock" -> <<".", "l", "o", "c", "k">>
      [] str = "a/b" -> <<"a", "/", "b">>
      [] str = "../one" -> <<".", ".", "/", "o", "n", "e">>
      [] str = "_a" -> <<"_", "a">>
      [] str = "a.b" -> <<"a", ".", "b">>
      [] str = "one" -> <<"o", "n", "e">>
      [] str = "two" -> <<"t", "w", "o">>
      [] str = "three" -> <<"t", "h", "r", "e", "e">>
      [] str = "file0" -> <<"f", "i", "l", "e", "0">>
      [] str = "file1" -> <<"f", "i", "l", "e", "1">>
\* char::is_alphanumeric, over the characters of the model.
Alphanumeric ==
    {"a", "b", "c", "e", "f", "h", "i", "k", "l", "n", "o", "r", "t", "w", "0", "1"}
\* (faulty variant: only the first character is looked at)
CheckPathFirst(key) ==
    IF key = <<>> THEN FALSE ELSE Head(key) \in Alphanumeric
CheckPath(key) ==
    IF key = <<>> \/ Head(key) = "." THEN FALSE
    ELSE IF Head(key) \notin Alphanumeric THEN FALSE
    ELSE \A i \in 2..Len(key) : key[i] = "." \/ key[i] \in Alphanumeric

\* Cache::entry(key), lines 330 and 343-347: to_path refuses the key.
EntryInvalidKey(key) ==
    /\ Running
    /\ ~CheckPath(Chars(key))
    /\ last' = [NoOp EXCEPT !.op = "entry", !.key = key, !.res = "InvalidKey"]
    /\ UNCHANGED <<capacity, dirs, files, strays, clock, items, before, vacant,
                   written>>
    /\ UNCHANGED <<lockVars, walkVars, taskVars>>

\* VacantEntry::insert_with(name, f), line 84: the name is refused.
\* (faulty variant: the directory is created before the name is looked at)
InsertInvalidNameLate(k, name) ==
    /\ Running
    /\ k \in vacant
    /\ ~CheckPath(Chars(name))
    /\ dirs' = dirs \cup {k}
    /\ last' = [NoOp EXCEPT !.op = "insert_with", !.key = k, !.name = name,
                            !.res = "InvalidName"]
    /\ UNCHANGED <<capacity, files, strays, clock, items, before, vacant, written>>
    /\ UNCHANGED <<lockVars, walkVars, taskVars>>
InsertInvalidName(k, name) ==
    /\ Running
    /\ k \in vacant
    /\ ~CheckPath(Chars(name))
    /\ last' = [NoOp EXCEPT !.op = "insert_with", !.key = k, !.name = name,
                            !.res = "InvalidName"]
    /\ UNCHANGED <<capacity, dirs, files, strays, clock, items, before, vacant,
                   written>>
    /\ UNCHANGED <<lockVars, walkVars, taskVars>>

\* ---- insert_with when a step fails, lines 86-134 ----
\* The steps of insert_with that may return an error, in order, and the
\* InsertError each one returns.
Steps == <<"create_dir", "create_new", "try_clone", "f", "sync_all", "metadata",
           "reopen">>
ErrorOf(step) ==
    CASE step \in {"create_dir", "create_new", "try_clone"} -> "Create"
      [] step \in {"f", "sync_all"} -> "Write"
      [] step = "metadata" -> "Metadata"
      [] step = "reopen" -> "Reopen"
StepNo(step) == CHOOSE i \in DOMAIN Steps : Steps[i] = step

\* VacantEntry::insert_with(name, f) when the step given returns an error
\* (create_dir one other than AlreadyExists): what the steps before it did
\* stays, nothing is undone, and Cache::insert is not reached. b is what f
\* wrote before it or a later step failed.
\* (faulty variant: the file is removed again)
InsertWithFailsClean(k, name, b, step) ==
    /\ Running
    /\ k \in vacant
    /\ CheckPath(Chars(name))
    /\ step = "create_dir" => k \notin dirs
    /\ step # "create_new" => CreateNew(k, name)
    /\ StepNo(step) < StepNo("f") => b = <<>>
    /\ dirs' = IF step = "create_dir" THEN dirs ELSE dirs \cup {k}
    /\ last' = [op |-> "insert_with", key |-> k, name |-> name, sz |-> Len(b),
                res |-> ErrorOf(step), pos |-> PosOf(items, k), evicted |-> <<>>,
                got |-> {}]
    /\ UNCHANGED <<capacity, files, strays, clock, items, before, vacant, written>>
    /\ UNCHANGED <<lockVars, walkVars, taskVars>>
InsertWithFails(k, name, b, step) ==
    /\ Running
    /\ k \in vacant
    /\ CheckPath(Chars(name))
    /\ step = "create_dir" => k \notin dirs
    /\ step # "create_new" => CreateNew(k, name)
    /\ StepNo(step) < StepNo("f") => b = <<>>
    /\ dirs' = IF step = "create_dir" THEN dirs ELSE dirs \cup {k}
    /\ files' = IF StepNo(step) <= StepNo("create_new") THEN files
                ELSE files \cup {[key |-> k, name |-> name, bytes |-> b,
                                  mtime |-> clock]}
    /\ last' = [op |-> "insert_with", key |-> k, name |-> name, sz |-> Len(b),
                res |-> ErrorOf(step), pos |-> PosOf(items, k), evicted |-> <<>>,
                got |-> {}]
    /\ UNCHANGED <<capacity, strays, clock, items, before, vacant, written>>
    /\ UNCHANGED <<lockVars, walkVars, taskVars>>

\* VacantEntry::insert_with(name, f) when the file is written and, in
\* Cache::insert, remove_dir_all fails on candidate number at of the
\* eviction pass (line 392): the candidates before it are gone from the
\* disk and the index, the pass stops, the new size is not registered and
\* insert_with returns InsertError::Reserve. remove_dir_all removes the
\* files of a directory one by one and returns at the first error: the
\* files in kept are those it had not removed.
InsertReserveFails(k, name, b, at) ==
    /\ Running
    /\ k \in vacant
    /\ CheckPath(Chars(name))
    /\ CreateNew(k, name)
    /\ \E r \in {Insert(capacity, items, k, Len(b))} :
          /\ at \in DOMAIN r.evicted
          /\ \E gone \in {{r.evicted[i] : i \in 1..(at - 1)}},
                kept \in SUBSET FilesIn(r.evicted[at]) :
                /\ dirs' = (dirs \cup {k}) \ gone
                /\ files' = {f \in files \cup {[key |-> k, name |-> name,
                                                  bytes |-> b, mtime |-> clock]} :
                               /\ f.key \notin gone
                               /\ f.key = r.evicted[at] => f \in kept}
                /\ strays' = {o \in strays : o.path[1] \notin gone}
                /\ items' = WithoutAll(items, SubSeq(r.evicted, 1, at - 1))
                /\ written' = [j \in Keys |-> IF j \in gone THEN {} ELSE written[j]]
                /\ last' = [op |-> "insert_with", key |-> k, name |-> name,
                            sz |-> Len(b), res |-> "Reserve",
                            pos |-> PosOf(items, k),
                            evicted |-> SubSeq(r.evicted, 1, at - 1), got |-> {}]
    /\ UNCHANGED <<capacity, clock, before, vacant>>
    /\ UNCHANGED <<lockVars, walkVars, taskVars>>

\* Cache::size, Cache::len and Cache::capacity, lines 349-361: what the
\* call returns is last.sz.
Query(q) ==
    /\ Running
    /\ last' = [NoOp EXCEPT !.op = q,
                            !.sz = CASE q = "size" -> Sum(items)
                                     [] q = "len" -> Len(items)
                                     [] q = "capacity" -> capacity]
    /\ UNCHANGED <<capacity, dirs, files, strays, clock, items, before, vacant,
                   written>>
    /\ UNCHANGED <<lockVars, walkVars, taskVars>>

\* The system clock moves on.
Tick ==
    /\ clock < MaxClock
    /\ clock' = clock + 1
    /\ UNCHANGED <<capacity, dirs, files, strays, items, before, vacant, written,
                   last>>
    /\ UNCHANGED <<lockVars, walkVars, taskVars>>

\* ---- the recovery scan of Cache::new, lines 174-234 ----
\* The process under study is instance 1.
Me == 1
LockFile == <<".lock">>
\* The entries of the walk that are not directories, as paths relative to
\* the root. WalkDir queues the regular files and the directories it reads
\* and nothing else, so a symbolic link, a socket or a FIFO is never yielded.
Walked ==
    (IF lockPath # NoIno THEN {LockFile} ELSE {})
        \cup {<<f.key, f.name>> : f \in files}
        \cup {o.path : o \in {x \in strays : x.kind = "file"}}
\* Lines 190-202: the entries that fail the ensure!.
Misplaced == {p \in Walked : p # LockFile /\ Len(p) # 2}

Max(S) == CHOOSE x \in S : \A y \in S : y <= x
Min(S) == CHOOSE x \in S : \A y \in S : x <= y
RECURSIVE Bytes(_)
Bytes(fs) ==
    IF fs = {} THEN 0
    ELSE LET f == CHOOSE f \in fs : TRUE IN Len(f.bytes) + Bytes(fs \ {f})
\* Lines 213-217: the HashMap, one key for each first component met, with
\* the latest modification time (from FileTime::zero()) and the total length.
Grouped == {f.key : f \in files}
\* (faulty variant: the earliest modification time)
GroupTimeEarliest(k) == Min({MaxClock} \cup {f.mtime : f \in FilesIn(k)})
GroupTime(k) == Max({0} \cup {f.mtime : f \in FilesIn(k)})
\* (faulty variant: the files are counted, not their bytes)
GroupSizeCounts(k) == Cardinality(FilesIn(k))
GroupSize(k) == Bytes(FilesIn(k))

\* The sequences that hold each element of S once.
RECURSIVE Orders(_)
Orders(S) ==
    IF S = {} THEN {<<>>}
    ELSE UNION {{<<k>> \o q : q \in Orders(S \ {k})} : k \in S}
\* Lines 220-221: sort_by_key is a stable sort of the HashMap's iteration
\* order, which is arbitrary: keys with equal times come out in any order.
\* (faulty variant: the sort is left out)
SortedNot == Orders(Grouped)
Sorted ==
    {q \in Orders(Grouped) :
        \A i, j \in DOMAIN q : i < j => GroupTime(q[i]) <= GroupTime(q[j])}
\* Lines 223-226.
Packed(q) == [i \in DOMAIN q |-> [key |-> q[i], size |-> GroupSize(q[i])]]

Closed == [NoOp EXCEPT !.op = "none", !.res = "Closed"]

\* Cache::new(root, c) once Lock::new has returned the lock: the scan, and
\* either the Cache or Error::Structure, whose return drops the lock.
\* (faulty variant: the scan runs once root/.lock is open, before try_lock)
ScanUnlocked(c) ==
    /\ pc[Me] = "opened"
    /\ last.res \in {"Closed"} \cup Failures
    /\ capacity' = c
    /\ before' = <<>>
    /\ last' = IF Misplaced # {} THEN [NoOp EXCEPT !.res = "Structure"] ELSE NoOp
    /\ \E q \in Sorted : items' = Packed(q)
    /\ UNCHANGED lockVars
    /\ UNCHANGED <<dirs, files, strays, clock, vacant, written>>
    /\ UNCHANGED <<walkVars, taskVars>>
\* (faulty variant: Error::Structure is returned with the lock still held and
\* root/.lock in place)
ScanKeepsLock(c) ==
    /\ pc[Me] = "live"
    /\ last.res \in {"Closed"} \cup Failures
    /\ capacity' = c
    /\ before' = <<>>
    /\ IF Misplaced # {}
       THEN /\ last' = [NoOp EXCEPT !.res = "Structure"]
            /\ items' = <<>>
            /\ pc' = [pc EXCEPT ![Me] = "idle"]
            /\ UNCHANGED <<lockPath, nextIno, flock, fd, res, liveDuring, others>>
       ELSE /\ last' = NoOp
            /\ \E q \in Sorted : items' = Packed(q)
            /\ UNCHANGED <<lockVars, walkVars, taskVars>>
    /\ UNCHANGED <<dirs, files, strays, clock, vacant, written>>
    /\ UNCHANGED <<walkVars, taskVars>>
Scan(c) ==
    /\ pc[Me] = "live"
    /\ last.res \in {"Closed"} \cup Failures
    /\ capacity' = c
    /\ before' = <<>>
    /\ IF Misplaced # {}
       THEN /\ last' = [NoOp EXCEPT !.res = "Structure"]
            /\ items' = <<>>
            /\ Unlock(Me)
       ELSE /\ last' = NoOp
            /\ \E q \in Sorted : items' = Packed(q)
            /\ UNCHANGED <<lockVars, walkVars, taskVars>>
    /\ UNCHANGED <<dirs, files, strays, clock, vacant, written>>
    /\ UNCHANGED <<walkVars, taskVars>>

\* Cache::new(root, c) once Lock::new has returned the lock, when an I/O
\* step fails: fs::canonicalize (lines 175-176), the WalkDir stream (line
\* 183) or fs::metadata of a file of an entry (lines 200-207). The ? returns
\* the error, which drops the lock.
IoFailures == {"Canonicalize", "WalkDir", "Size"}
ScanFails(c, e) ==
    /\ pc[Me] = "live"
    /\ last.res \in {"Closed"} \cup Failures
    /\ e = "Size" => \E p \in Walked : p # LockFile /\ Len(p) = 2
    /\ capacity' = c
    /\ before' = <<>>
    /\ last' = [NoOp EXCEPT !.res = e]
    /\ items' = <<>>
    /\ Unlock(Me)
    /\ UNCHANGED <<dirs, files, strays, clock, vacant, written>>
    /\ UNCHANGED <<walkVars, taskVars>>

\* drop(Cache): the index is freed and the lock field dropped; the removal
\* of root/.lock is the step DropRemove.
Drop ==
    /\ Running
    /\ Unlock(Me)
    /\ items' = <<>>
    /\ before' = items
    /\ vacant' = {}
    /\ last' = Closed
    /\ UNCHANGED <<capacity, dirs, files, strays, clock, written>>
    /\ UNCHANGED <<walkVars, taskVars>>

\* Instance 1 holds the lock of the root.
LockHeld ==
    /\ lockPath = 1
    /\ nextIno = 2
    /\ flock = [n \in Inodes |-> IF n = 1 THEN Me ELSE 0]
    /\ pc = [i \in Inst |-> IF i = Me THEN "live" ELSE "idle"]
    /\ fd = [i \in Inst |-> IF i = Me THEN 1 ELSE NoIno]
    /\ res = [i \in Inst |-> IF i = Me THEN "Ok" ELSE "none"]
    /\ liveDuring = [i \in Inst |-> {}]
    /\ others = [i \in Inst |-> FALSE]

\* Cache::new(root, capacity) over an empty root has returned.
CacheInit ==
    /\ capacity \in 0..MaxCap
    /\ dirs = {}
    /\ files = {}
    /\ strays = {}
    /\ clock = 0
    /\ items = <<>>
    /\ before = <<>>
    /\ vacant = {}
    /\ written = [k \in Keys |-> {}]
    /\ last = NoOp

(***************************************************************************)
(* WalkDir: roadtrip-walkdir/src/lib.rs                                    *)
(***************************************************************************)
\* Paths are sequences of names; Root is the directory handed to
\* WalkDir::new. Objects outside it: the file x, and what WalkDir::insert is
\* handed besides the root.
Root == <<"r">>
NoPath == <<>>
\* Symbolic links fs::canonicalize follows before it gives up (ELOOP).
MaxHops == 2

\* Ord for Path: component by component, a proper prefix first.
NameRank(name) ==
    CASE name = "a" -> 1
      [] name = "b" -> 2
      [] name = "c" -> 3
      [] name = "d" -> 4
      [] name = "gone" -> 5
      [] name = "ln" -> 6
      [] name = "r" -> 7
      [] name = "x" -> 8
RECURSIVE PathLess(_, _)
PathLess(p, q) ==
    IF q = <<>> THEN FALSE
    ELSE IF p = <<>> THEN TRUE
    ELSE IF Head(p) = Head(q) THEN PathLess(Tail(p), Tail(q))
    ELSE NameRank(Head(p)) < NameRank(Head(q))

Exists(p) == \E o \in tree : o.path = p
Node(p) == CHOOSE o \in tree : o.path = p
\* read_dir(p): the objects directly in the directory p.
Children(p) ==
    {o \in tree : Len(o.path) = Len(p) + 1 /\ SubSeq(o.path, 1, Len(p)) = p}

\* fs::canonicalize: the path with its symbolic links followed, NoPath for
\* the error (nothing there, or too many links).
RECURSIVE Canonicalize(_, _)
Canonicalize(p, hops) ==
    IF ~Exists(p) THEN NoPath
    ELSE IF Node(p).kind # "link" THEN p
    ELSE IF hops = 0 THEN NoPath
    ELSE Canonicalize(Node(p).target, hops - 1)

\* From<&Metadata> for Kind, lines 56-66.
KindOf(o) ==
    IF o.kind = "dir" THEN "Dir" ELSE IF o.kind = "file" THEN "File" ELSE "Unknown"

\* BTreeMap::insert: a path that is queued already gets the new kind.
Queue(unv, e) == {o \in unv : o.path # e.path} \cup {e}
RECURSIVE QueueAll(_, _)
QueueAll(unv, es) ==
    IF es = {} THEN unv
    ELSE LET e == CHOOSE e \in es : TRUE IN QueueAll(Queue(unv, e), es \ {e})

\* step_dir, lines 113-132: the entries whose metadata (the link itself, not
\* what it points to) is a regular file or a directory are queued.
\* (faulty variant: only the directories are queued)
StepDirOnlyDirs(unv, path) ==
    QueueAll(unv, {[path |-> o.path, kind |-> KindOf(o)] :
                      o \in {c \in Children(path) : c.kind = "dir"}})
\* (faulty variant: symbolic links are queued too, to be followed)
StepDirLinks(unv, path) ==
    QueueAll(unv, {[path |-> o.path, kind |-> KindOf(o)] : o \in Children(path)})
StepDir(unv, path) ==
    QueueAll(unv, {[path |-> o.path, kind |-> KindOf(o)] :
                      o \in {c \in Children(path) : c.kind \in {"file", "dir"}}})

\* BTreeSet::insert, line 156: TRUE when the path was not in the set.
\* (faulty variant: every path counts as new)
FreshAlways(vis, canon) == TRUE
Fresh(vis, canon) == canon \notin vis

\* WalkDir::step, lines 140-186: [visited, unvisited, out], out the item
\* yielded, <<>> when the stream ends.
RECURSIVE Step(_, _)
Step(vis, unv) ==
    IF unv = {} THEN [visited |-> vis, unvisited |-> unv, out |-> <<>>]
    ELSE LET first == CHOOSE e \in unv :
                          \A o \in unv \ {e} : PathLess(e.path, o.path)
             rest == unv \ {first}
             canon == Canonicalize(first.path, MaxHops)
         IN  IF canon = NoPath
             THEN [visited |-> vis, unvisited |-> rest,
                   out |-> <<[path |-> first.path, is_dir |-> FALSE, ok |-> FALSE]>>]
             ELSE IF ~Fresh(vis, canon) THEN Step(vis, rest)
             ELSE LET kind == IF first.kind = "Unknown" THEN KindOf(Node(canon))
                              ELSE first.kind
                  IN  IF kind = "Dir"
                      THEN [visited |-> vis \cup {canon},
                            unvisited |-> StepDir(rest, canon),
                            out |-> <<[path |-> canon, is_dir |-> TRUE, ok |-> TRUE]>>]
                      ELSE IF kind = "File"
                      THEN [visited |-> vis \cup {canon}, unvisited |-> rest,
                            out |-> <<[path |-> canon, is_dir |-> FALSE, ok |-> TRUE]>>]
                      ELSE Step(vis \cup {canon}, rest)

\* One poll of the stream of WalkDir::walk.
WalkNext ==
    /\ stream = "open"
    /\ \E r \in {Step(visited, unvisited)} :
           /\ visited' = r.visited
           /\ unvisited' = r.unvisited
           /\ yielded' = yielded \o r.out
           /\ stream' = IF r.out = <<>> THEN "ended" ELSE "open"
    /\ UNCHANGED tree
    /\ UNCHANGED <<lockVars, cacheVars, taskVars>>

\* No WalkDir of its own: the walk of Cache::new is part of the step Scan.
WalkIdle ==
    /\ tree = {}
    /\ visited = {}
    /\ unvisited = {}
    /\ yielded = <<>>
    /\ stream = "ended"

\* The trees walked: under the root a (nothing, a file, a directory, or a
\* link back to the root), b (nothing, a file or a directory), in b c
\* (nothing, a file, a directory, a link back to b or a link to x) and in c
\* d (nothing or a file).
Obj(p, kind, target) == [path |-> p, kind |-> kind, target |-> target]
Shape(a, b, c, d, more) ==
    {Obj(Root, "dir", NoPath), Obj(<<"x">>, "file", NoPath)}
        \cup (IF a = "link" THEN {Obj(<<"r", "a">>, "link", Root)}
              ELSE IF a # "none" THEN {Obj(<<"r", "a">>, a, NoPath)} ELSE {})
        \cup (IF b # "none" THEN {Obj(<<"r", "b">>, b, NoPath)} ELSE {})
        \cup (IF c = "link" THEN {Obj(<<"r", "b", "c">>, "link", <<"r", "b">>)}
              ELSE IF c = "out" THEN {Obj(<<"r", "b", "c">>, "link", <<"x">>)}
              ELSE IF c # "none" THEN {Obj(<<"r", "b", "c">>, c, NoPath)} ELSE {})
        \cup (IF d # "none" THEN {Obj(<<"r", "b", "c", "d">>, d, NoPath)} ELSE {})
        \cup (IF more = "ln" THEN {Obj(<<"ln">>, "link", <<"r", "b">>)} ELSE {})
\* What WalkDir::insert is handed besides the root: nothing, the link ln
\* to the directory b, the directory b itself, or a path with nothing there.
Started(more) ==
    {[path |-> Root, kind |-> "Unknown"]}
        \cup (IF more = "ln" THEN {[path |-> <<"ln">>, kind |-> "Unknown"]}
              ELSE IF more = "sub" THEN {[path |-> <<"r", "b">>, kind |-> "Unknown"]}
              ELSE IF more = "gone" THEN {[path |-> <<"gone">>, kind |-> "Unknown"]}
              ELSE {})

InitWalk ==
    /\ \E a \in {"none", "file", "dir", "link"}, b \in {"none", "file", "dir"},
          c \in {"none", "file", "dir", "link", "out"}, d \in {"none", "file"},
          more \in {"none", "ln", "sub", "gone"} :
          /\ c # "none" => b = "dir"
          /\ d # "none" => c = "dir"
          /\ more \in {"ln", "sub"} => b = "dir"
          /\ tree = Shape(a, b, c, d, more)
          /\ unvisited = Started(more)
    /\ visited = {}
    /\ yielded = <<>>
    /\ stream = "open"

(***************************************************************************)
(* Tasks sharing one Cache: lib.rs                                         *)
(*                                                                         *)
(* Each call of a task is cut at the awaits where another task can run     *)
(* and change the disk or the index in between.                            *)
(***************************************************************************)
Tasks == {1, 2}
\* The calls one task makes.
MaxCalls == 2

Idle == [pc |-> "idle", op |-> "none", key |-> "", name |-> "", bytes |-> <<>>,
         res |-> "none", calls |-> 0, handles |-> {}, made |-> FALSE,
         todo |-> <<>>, evicted |-> <<>>, snap |-> <<>>]

\* The call of task t has returned; the panic aborts the task.
Returned(t, result) ==
    [task[t] EXCEPT !.pc = IF result = "panic" THEN "aborted" ELSE "idle",
                    !.res = result, !.calls = @ + 1]

\* Mutex::lock is granted.
\* (faulty variant: granted while another task holds the mutex)
GrantedAlways(t) == TRUE
Granted(t) == mutex = 0

\* fs::create_dir and the match of lines 86-95: [ok, made].
\* (faulty variant: AlreadyExists is an error like any other)
CreateDirStrict(k) == [ok |-> k \notin dirs, made |-> k \notin dirs]
CreateDir(k) == [ok |-> TRUE, made |-> k \notin dirs]

\* Cache::entry(key), line 332: read_dir. NotFound is the Vacant entry.
ReadDir(t, k) ==
    /\ task[t].pc = "idle"
    /\ task[t].calls < MaxCalls
    /\ task' = [task EXCEPT ![t] =
                  IF k \in dirs
                  THEN [task[t] EXCEPT !.pc = "read_dir", !.op = "entry", !.key = k,
                                       !.res = "none"]
                  ELSE [Returned(t, "Vacant") EXCEPT !.op = "entry", !.key = k,
                                                     !.handles = @ \cup {k}]]
    /\ UNCHANGED <<mutex, unlinked>>
    /\ UNCHANGED <<lockVars, cacheVars, walkVars>>

\* occupied_entry, lines 270-311: the files the directory holds now are
\* opened and stamped.
OpenFiles(t) ==
    /\ task[t].pc = "read_dir"
    /\ files' = Touched(task[t].key, clock)
    /\ task' = [task EXCEPT ![t].pc = "opened"]
    /\ UNCHANGED <<capacity, dirs, strays, clock, items, before, vacant, written, last>>
    /\ UNCHANGED <<mutex, unlinked>>
    /\ UNCHANGED <<lockVars, walkVars>>

\* occupied_entry, lines 313-317: under the mutex, get_refresh; a key the
\* index does not hold is the panic.
TouchIndex(t) ==
    /\ task[t].pc = "opened"
    /\ Granted(t)
    /\ items' = GetRefresh(items, task[t].key)
    /\ task' = [task EXCEPT ![t] =
                  Returned(t, IF Has(items, task[t].key) THEN "Occupied" ELSE "panic")]
    /\ UNCHANGED <<capacity, dirs, files, strays, clock, before, vacant, written, last>>
    /\ UNCHANGED <<mutex, unlinked>>
    /\ UNCHANGED <<lockVars, walkVars>>

\* insert_with, lines 84-95, on a VacantEntry the task was handed: the
\* directory is created unless it is there.
CreateDirStep(t, k, name, b) ==
    /\ task[t].pc = "idle"
    /\ task[t].calls < MaxCalls
    /\ k \in task[t].handles
    /\ \E r \in {CreateDir(k)} :
          /\ dirs' = IF r.ok THEN dirs \cup {k} ELSE dirs
          /\ task' = [task EXCEPT ![t] =
                IF r.ok
                THEN [task[t] EXCEPT !.pc = "dir", !.op = "insert_with", !.key = k,
                                     !.name = name, !.bytes = b, !.res = "none",
                                     !.made = r.made, !.todo = <<>>,
                                     !.evicted = <<>>, !.snap = <<>>]
                ELSE [Returned(t, "Create") EXCEPT !.op = "insert_with", !.key = k,
                                                   !.name = name, !.bytes = b]]
    /\ UNCHANGED <<capacity, files, strays, clock, items, before, vacant, written, last>>
    /\ UNCHANGED <<mutex, unlinked>>
    /\ UNCHANGED <<lockVars, walkVars>>

\* insert_with, lines 97-110: the file is created, unless the directory is
\* gone again or holds the name.
CreateNewStep(t) ==
    /\ task[t].pc = "dir"
    /\ IF task[t].key \in dirs /\ CreateNew(task[t].key, task[t].name)
       THEN /\ files' = files \cup {[key |-> task[t].key, name |-> task[t].name,
                                     bytes |-> <<>>, mtime |-> clock]}
            /\ task' = [task EXCEPT ![t].pc = "file"]
            /\ unlinked' = unlinked \ {t}
       ELSE /\ task' = [task EXCEPT ![t] = Returned(t, "Create")]
            /\ UNCHANGED <<files, unlinked>>
    /\ UNCHANGED <<capacity, dirs, strays, clock, items, before, vacant, written, last>>
    /\ UNCHANGED mutex
    /\ UNCHANGED <<lockVars, walkVars>>

\* insert_with, lines 112-123: the writer writes through the open file, the
\* file is synced and its length read from the open file. A file removed
\* from its directory meanwhile takes the bytes all the same.
WriteStep(t) ==
    /\ task[t].pc = "file"
    /\ files' = IF t \in unlinked THEN files
                ELSE {IF f.key = task[t].key /\ f.name = task[t].name
                      THEN [f EXCEPT !.bytes = task[t].bytes, !.mtime = clock]
                      ELSE f : f \in files}
    /\ task' = [task EXCEPT ![t].pc = "written"]
    /\ UNCHANGED <<capacity, dirs, strays, clock, items, before, vacant, written, last>>
    /\ UNCHANGED <<mutex, unlinked>>
    /\ UNCHANGED <<lockVars, walkVars>>

\* insert_with, lines 125-129: the file is opened again by its path.
ReopenStep(t) ==
    /\ task[t].pc = "written"
    /\ task' = [task EXCEPT ![t] =
                  IF CreateNew(task[t].key, task[t].name)
                  THEN Returned(t, "Reopen")
                  ELSE [task[t] EXCEPT !.pc = "reopened"]]
    /\ unlinked' = unlinked \ {t}
    /\ UNCHANGED mutex
    /\ UNCHANGED <<lockVars, cacheVars, walkVars>>

\* Cache::insert, lines 368-380: the mutex is taken, and the room and what
\* is missing are worked out; todo is what the pass will remove, as long as
\* no removal fails.
LockIndex(t) ==
    /\ task[t].pc = "reopened"
    /\ Granted(t)
    /\ mutex' = t
    /\ task' = [task EXCEPT ![t].pc = "locked",
                            ![t].snap = items,
                            ![t].todo = Insert(capacity, items, task[t].key,
                                               Len(task[t].bytes)).evicted]
    /\ UNCHANGED unlinked
    /\ UNCHANGED <<lockVars, cacheVars, walkVars>>

\* Cache::insert, lines 382-394, one turn of the loop that removes: the
\* directory of the candidate with all it holds, then its key. A directory
\* that is not there fails remove_dir_all: the error is returned and the
\* mutex dropped.
EvictOne(t) ==
    /\ task[t].pc = "locked"
    /\ task[t].todo # <<>>
    /\ LET k == Head(task[t].todo)
       IN  IF k \in dirs
           THEN /\ dirs' = dirs \ {k}
                /\ files' = {f \in files : f.key # k}
                /\ items' = Without(items, k)
                /\ unlinked' = unlinked \cup
                      {u \in Tasks : task[u].key = k /\ task[u].pc \in {"file", "written"}}
                /\ task' = [task EXCEPT ![t].todo = Tail(@),
                                        ![t].evicted = Append(@, k)]
                /\ UNCHANGED mutex
           ELSE /\ task' = [task EXCEPT ![t] = Returned(t, "Reserve")]
                /\ mutex' = 0
                /\ UNCHANGED <<dirs, files, items, unlinked>>
    /\ UNCHANGED <<capacity, strays, clock, before, vacant, written, last>>
    /\ UNCHANGED <<lockVars, walkVars>>

\* Cache::insert, lines 397-398: the size is registered and the mutex
\* dropped.
Register(t) ==
    /\ task[t].pc = "locked"
    /\ task[t].todo = <<>>
    /\ items' = Upsert(items, task[t].key, Len(task[t].bytes))
    /\ mutex' = 0
    /\ task' = [task EXCEPT ![t] = Returned(t, "Ok")]
    /\ UNCHANGED <<capacity, dirs, files, strays, clock, before, vacant, written, last>>
    /\ UNCHANGED unlinked
    /\ UNCHANGED <<lockVars, walkVars>>

\* No task runs.
TasksIdle ==
    /\ task = [t \in Tasks |-> Idle]
    /\ mutex = 0
    /\ unlinked = {}

(***************************************************************************)
(* Specifications                                                          *)
(***************************************************************************)
\* The lock protocol alone: no cache operation runs, the cache variables
\* stay as built.
InitLock == LockInit /\ CacheInit /\ capacity = 0 /\ WalkIdle /\ TasksIdle

NextLock ==
    \/ \E i \in Inst : OpenOrCreate(i)
    \/ \E i \in Inst : TryLockAcquired(i)
    \/ \E i \in Inst : TryLockRefused(i)
    \/ \E i \in Inst : DropUnlock(i)
    \/ \E i \in Inst : DropRemove(i)

SpecLock == InitLock /\ [][NextLock]_vars

\* The lock protocol with a remove_file that may fail, run by three
\* instances.
Releasing == {1, 2, 3}
InitRelease == LockInit /\ CacheInit /\ capacity = 0 /\ WalkIdle /\ TasksIdle

NextRelease ==
    \/ \E i \in Releasing : OpenOrCreate(i)
    \/ \E i \in Releasing : TryLockAcquired(i)
    \/ \E i \in Releasing : TryLockRefused(i)
    \/ \E i \in Releasing : DropUnlock(i)
    \/ \E i \in Releasing : DropRemove(i)
    \/ \E i \in Releasing : DropRemoveFails(i)

SpecRelease == InitRelease /\ [][NextRelease]_vars

\* One live Cache over an empty root, one process.
Init == LockInit /\ CacheInit /\ WalkIdle /\ TasksIdle

Next ==
    \/ \E k \in Keys : EntryOccupied(k)
    \/ \E k \in Keys : EntryVacant(k)
    \/ \E k \in Keys, n \in Names, b \in Contents : InsertWith(k, n, b)

Spec == Init /\ [][Next]_vars

\* One process that builds, uses and drops one Cache after another on the
\* root, while the clock ticks.
InitLife == LockHeld /\ CacheInit /\ capacity = MaxCap /\ WalkIdle /\ TasksIdle

NextLife ==
    \/ Tick
    \/ \E k \in Keys : EntryOccupied(k)
    \/ \E k \in Keys : EntryVacant(k)
    \/ \E k \in Keys, b \in Contents : InsertWith(k, "file0", b)
    \/ Drop
    \/ DropRemove(Me)
    \/ OpenOrCreate(Me)
    \/ TryLockAcquired(Me)
    \/ Scan(capacity)

SpecLife == InitLife /\ [][NextLife]_vars

\* A root populated from outside, as tests/from_fs.rs populates it, and no
\* Cache yet: directories (some empty), files with any content and any
\* modification time, and at most one object that is no file of an entry.
Strays ==
    {[path |-> <<"stray">>, kind |-> "file"],
     [path |-> <<"one", "sub", "deep">>, kind |-> "file"],
     [path |-> <<"link">>, kind |-> "other"]}
Slots == {<<"one", "file0">>, <<"one", "file1">>, <<"two", "file0">>}
Populated(pick) ==
    {[key |-> s[1], name |-> s[2], bytes |-> pick[s][1], mtime |-> pick[s][2]] :
        s \in {x \in Slots : pick[x] # <<>>}}
InitRecover ==
    /\ LockInit
    /\ capacity = MaxCap
    /\ clock = MaxClock
    /\ dirs \in SUBSET Keys
    /\ \E pick \in [Slots -> {<<>>} \cup (Contents \X (0..MaxClock))] :
          files = Populated(pick)
    /\ \A f \in files : f.key \in dirs
    /\ strays \in {o \in SUBSET Strays : Cardinality(o) <= 1}
    /\ \A o \in strays : Len(o.path) > 1 => o.path[1] \in dirs
    /\ items = <<>>
    /\ before = <<>>
    /\ vacant = {}
    /\ written = [k \in Keys |-> EntryFiles(k)]
    /\ last = Closed
    /\ WalkIdle /\ TasksIdle

\* Cache::new on the populated root, then lookups and the first insert.
NextRecover ==
    \/ OpenOrCreate(Me)
    \/ TryLockAcquired(Me)
    \/ Scan(capacity)
    \/ DropRemove(Me)
    \/ \E k \in Keys : last.op # "insert_with" /\ EntryOccupied(k)
    \/ \E k \in Keys : EntryVacant(k)
    \/ \E k \in Keys, b \in Contents :
          last.op # "insert_with" /\ InsertWith(k, "file0", b)

SpecRecover == InitRecover /\ [][NextRecover]_vars

\* One live Cache over an empty root; the caller hands entry and
\* insert_with strings that pass check_path and strings that do not.
Refused == {"", ".", "..", ".lock", "a/b", "../one", "_a"}
KeyStrings == {"one", "two"} \cup Refused
NameStrings == {"file0", "a.b"} \cup Refused

InitPath == LockInit /\ CacheInit /\ WalkIdle /\ TasksIdle

NextPath ==
    \/ \E key \in KeyStrings : EntryInvalidKey(key)
    \/ \E key \in KeyStrings : CheckPath(Chars(key)) /\ EntryOccupied(key)
    \/ \E key \in KeyStrings : CheckPath(Chars(key)) /\ EntryVacant(key)
    \/ \E k \in KeyStrings, name \in NameStrings : InsertInvalidName(k, name)
    \/ \E k \in KeyStrings, name \in NameStrings, b \in Contents :
          CheckPath(Chars(name)) /\ InsertWith(k, name, b)

SpecPath == InitPath /\ [][NextPath]_vars

\* One live Cache over an empty root, one process, and each step of
\* insert_with may fail.
InitFail == LockInit /\ CacheInit /\ WalkIdle /\ TasksIdle /\ capacity = MaxCap

NextFail ==
    \/ \E k \in Keys : EntryOccupied(k)
    \/ \E k \in Keys : EntryVacant(k)
    \/ \E k \in Keys, b \in Contents : InsertWith(k, "file0", b)
    \/ \E k \in Keys, b \in Contents, step \in Range(Steps) :
          InsertWithFails(k, "file0", b, step)
    \/ \E k \in Keys, b \in Contents, at \in 1..2 :
          InsertReserveFails(k, "file0", b, at)
    \/ \E q \in {"size", "len", "capacity"} : Query(q)

SpecFail == InitFail /\ [][NextFail]_vars

\* The same, the process making one call after another for as long as the
\* Cache takes calls.
SpecFailFair == InitFail /\ [][NextFail]_vars /\ WF_vars(NextFail)

\* Two tasks calling entry and insert_with on one Cache, built over an
\* empty root or over two entries of one byte each; every I/O step does
\* what the disk allows.
Seed == {[key |-> k, name |-> "file0", bytes |-> <<"x">>, mtime |-> 0] :
            k \in {"one", "two"}}
InitTasks ==
    /\ LockInit
    /\ WalkIdle
    /\ TasksIdle
    /\ capacity = MaxCap
    /\ files \in {{}, Seed}
    /\ dirs = {f.key : f \in files}
    /\ items \in {Packed(q) : q \in Sorted}
    /\ strays = {}
    /\ clock = 0
    /\ before = <<>>
    /\ vacant = {}
    /\ written = [k \in Keys |-> EntryFiles(k)]
    /\ last = NoOp

NextTasks ==
    \/ \E t \in Tasks, k \in Keys : ReadDir(t, k)
    \/ \E t \in Tasks : OpenFiles(t)
    \/ \E t \in Tasks : TouchIndex(t)
    \/ \E t \in Tasks, k \in Keys, n \in Names, b \in Contents \ {<<>>} :
          CreateDirStep(t, k, n, b)
    \/ \E t \in Tasks : CreateNewStep(t)
    \/ \E t \in Tasks : WriteStep(t)
    \/ \E t \in Tasks : ReopenStep(t)
    \/ \E t \in Tasks : LockIndex(t)
    \/ \E t \in Tasks : EvictOne(t)
    \/ \E t \in Tasks : Register(t)

SpecTasks == InitTasks /\ [][NextTasks]_vars

\* Two tasks on one Cache built over an empty root, later on: each task was
\* handed the VacantEntry of "one", and perhaps of "two", while the root was
\* empty, and file0 of one byte has been inserted into "one" through such a
\* handle since. A VacantEntry stays usable after its key is indexed.
Handed == {{"one"}, {"one", "two"}}
InitRace ==
    /\ LockInit
    /\ WalkIdle
    /\ capacity = MaxCap
    /\ files = {[key |-> "one", name |-> "file0", bytes |-> <<"x">>, mtime |-> 0]}
    /\ dirs = {"one"}
    /\ items = <<[key |-> "one", size |-> 1]>>
    /\ strays = {}
    /\ clock = 0
    /\ before = <<>>
    /\ vacant = {}
    /\ written = [k \in Keys |-> EntryFiles(k)]
    /\ last = NoOp
    /\ task \in {[t \in Tasks |-> [Idle EXCEPT !.handles = h[t]]] :
                    h \in [Tasks -> Handed]}
    /\ mutex = 0
    /\ unlinked = {}

\* The tasks call insert_with only.
NextRace ==
    \/ \E t \in Tasks, k \in Keys, n \in Names, b \in Contents \ {<<>>} :
          CreateDirStep(t, k, n, b)
    \/ \E t \in Tasks : CreateNewStep(t)
    \/ \E t \in Tasks : WriteStep(t)
    \/ \E t \in Tasks : ReopenStep(t)
    \/ \E t \in Tasks : LockIndex(t)
    \/ \E t \in Tasks : EvictOne(t)
    \/ \E t \in Tasks : Register(t)

SpecRace == InitRace /\ [][NextRace]_vars

\* One process that builds, uses and drops one Cache after another on the
\* root, while a second process tries for the lock of the same root.
Rival == 2
InitShare == LockHeld /\ CacheInit /\ WalkIdle /\ TasksIdle /\ capacity = MaxCap

NextShare ==
    \/ \E i \in {Me, Rival} : OpenOrCreate(i)
    \/ \E i \in {Me, Rival} : TryLockRefused(i)
    \/ TryLockAcquired(Me)
    \/ TryLockAcquired(Rival)
    \/ Scan(capacity)
    \/ Drop
    \/ DropUnlock(Rival)
    \/ \E i \in {Me, Rival} : DropRemove(i)
    \/ \E k \in Keys : EntryOccupied(k)
    \/ \E k \in Keys : EntryVacant(k)
    \/ \E k \in Keys, b \in Contents : InsertWith(k, "file0", b)

SpecShare == InitShare /\ [][NextShare]_vars

\* One task on one live Cache over an empty root, under a clock that
\* strictly increases from one write or stamp to the next: an insert or an
\* Occupied lookup runs only when the time is later than every modification
\* time on disk. Every insert succeeds; an entry takes files of both names.
ClockAdvanced == \A f \in files : f.mtime < clock
InitRecency == LockHeld /\ CacheInit /\ WalkIdle /\ TasksIdle /\ capacity = MaxCap

NextRecency ==
    \/ Tick
    \/ ClockAdvanced /\ \E k \in Keys : EntryOccupied(k)
    \/ \E k \in Keys : EntryVacant(k)
    \/ ClockAdvanced /\ \E k \in Keys, n \in Names, b \in Contents : InsertWith(k, n, b)

SpecRecency == InitRecency /\ [][NextRecency]_vars

\* Cache::new and drop by one process on a root populated from outside,
\* where the scan can fail, while a second process tries for the lock.
InitConstruct ==
    /\ LockInit
    /\ WalkIdle
    /\ TasksIdle
    /\ capacity = MaxCap
    /\ clock = 0
    /\ files \in {{}, Seed}
    /\ dirs = {f.key : f \in files}
    /\ strays \in {o \in SUBSET Strays : Cardinality(o) <= 1}
    /\ \A o \in strays : Len(o.path) > 1 => o.path[1] \in dirs
    /\ items = <<>>
    /\ before = <<>>
    /\ vacant = {}
    /\ written = [k \in Keys |-> EntryFiles(k)]
    /\ last = Closed

NextConstruct ==
    \/ \E i \in {Me, Rival} : OpenOrCreate(i)
    \/ \E i \in {Me, Rival} : TryLockAcquired(i)
    \/ \E i \in {Me, Rival} : TryLockRefused(i)
    \/ Scan(capacity)
    \/ \E e \in IoFailures : ScanFails(capacity, e)
    \/ Drop
    \/ DropUnlock(Rival)
    \/ \E i \in {Me, Rival} : DropRemove(i)

SpecConstruct == InitConstruct /\ [][NextConstruct]_vars

\* One WalkDir polled to the end of its stream, over each of the trees.
InitWalkDir == LockInit /\ CacheInit /\ capacity = 0 /\ InitWalk /\ TasksIdle

NextWalkDir == WalkNext

SpecWalkDir == InitWalkDir /\ [][NextWalkDir]_vars

\* The same, the consumer polling the stream until it has ended, as the
\* loop of Cache::new does.
SpecWalkDirFair == InitWalkDir /\ [][NextWalkDir]_vars /\ WF_vars(WalkNext)


(***************************************************************************)
(* Properties of the process lock (SpecLock)                               *)
(***************************************************************************)
\* C1: at most one live Cache instance holds the lock of the root, under any
\* interleaving of Cache::new and drop by three instances.
C1_MutualExclusion == Cardinality(Live) <= 1

\* C2: a Cache::new that ran while another Cache was live from its start to
\* its end failed with AlreadyLocked, so one that returned Ok overlapped no
\* live Cache; and a Cache::new that ran with every other instance dropped
\* (idle) throughout succeeded.
C2_SecondOpenRefused ==
    \A i \in Inst :
        /\ res[i] = "Ok" => liveDuring[i] = {}
        /\ res[i] = "AlreadyLocked" => others[i]

(***************************************************************************)
(* Properties of the running cache (Spec)                                  *)
(***************************************************************************)
Inserted == last.op = "insert_with" /\ last.res = "Ok"
Looked == last.op = "entry" /\ last.res = "Occupied"

\* C3, as claimed: after each insert_with, size() <= capacity() or the index
\* holds exactly one entry, the one just written to.
C3_CapacityOrSingleEntry ==
    Inserted =>
        \/ Sum(items) <= capacity
        \/ Len(items) = 1 /\ items[1].key = last.key

\* C3, amended: size() <= capacity() or exactly one entry of the index has a
\* size that is not zero (the other entries hold only empty files).
C3_CapacityOrOneNonEmpty ==
    \/ Sum(items) <= capacity
    \/ Cardinality({i \in DOMAIN items : items[i].size > 0}) = 1

\* An insert of an empty file beside an entry that alone exceeds the
\* capacity: two entries, over capacity.
C3_Witness ==
    /\ Inserted
    /\ last.sz = 0
    /\ Sum(items) > capacity
    /\ Len(items) >= 2

\* C4: the entries an insert evicts are the shortest prefix, oldest first and
\* with path left out, whose sizes add up to new_size - available, or all of
\* them when no prefix does; none when available >= new_size. An evicted
\* entry is never newer than a surviving entry other than path.
PrefixSize(q, n) == Sum(SubSeq(q, 1, n))
ShortestPrefix(q, need) ==
    IF \E n \in 0..Len(q) : PrefixSize(q, n) >= need
    THEN CHOOSE n \in 0..Len(q) :
            /\ PrefixSize(q, n) >= need
            /\ \A j \in 0..(n - 1) : PrefixSize(q, j) < need
    ELSE Len(q)
C4_Step ==
    (last'.op = "insert_with" /\ last'.res = "Ok") =>
        LET path == last'.key
            total == Sum(items)
            available == IF capacity - total > 0 THEN capacity - total ELSE 0
            rest == Without(items, path)
            n == ShortestPrefix(rest, last'.sz - available)
            expected == IF available >= last'.sz THEN {}
                        ELSE {rest[i].key : i \in 1..n}
            survivors == {i \in DOMAIN rest : rest[i].key \in KeysOf(items')}
        IN  /\ KeysOf(items) \ KeysOf(items') = expected
            /\ dirs \ dirs' = expected
            /\ Range(last'.evicted) = expected
            /\ \A i \in survivors : \A j \in DOMAIN rest :
                  j > i => j \in survivors
C4_MinimalOldestFirst == [][C4_Step]_vars

\* One insert evicted two entries, the older first.
C4_Witness == Inserted /\ Len(last.evicted) = 2

\* C5: an insert_with into P leaves P's directory, its files and its index
\* entry in place, wherever P is in the index and however far its size
\* exceeds the capacity.
C5_NeverEvictsSelf ==
    Inserted =>
        /\ last.key \in dirs
        /\ Has(items, last.key)
        /\ last.key \notin Range(last.evicted)
        /\ written[last.key] \subseteq EntryFiles(last.key)

\* P was the oldest entry, already over capacity on its own, and the pass
\* that went by it evicted another entry.
C5_Witness ==
    /\ Inserted
    /\ last.pos = 1
    /\ last.evicted # <<>>
    /\ SizeOf(items, last.key) > capacity + last.sz

\* C6: insert_with succeeds whatever the length of the file; afterwards the
\* entry is in the index and size() includes the length.
C6_AlwaysAdmitted ==
    last.op = "insert_with" =>
        /\ last.res = "Ok"
        /\ Has(items, last.key)
        /\ SizeOf(items, last.key) >= last.sz
        /\ Sum(items) >= last.sz

\* A file longer than the capacity was admitted.
C6_Witness == Inserted /\ last.sz > capacity /\ Sum(items) = last.sz

\* C7: the index value of an entry is the sum of the lengths of the files
\* written into it since it was created, and the index holds each key once.
RECURSIVE TotalLen(_)
TotalLen(ws) ==
    IF ws = {} THEN 0
    ELSE LET w == CHOOSE w \in ws : TRUE IN Len(w[2]) + TotalLen(ws \ {w})
C7_SizesCumulative ==
    /\ \A i \in DOMAIN items : items[i].size = TotalLen(written[items[i].key])
    /\ Cardinality(KeysOf(items)) = Len(items)

\* Two files, neither empty, written into one entry.
C7_Witness ==
    \E i \in DOMAIN items :
        /\ Cardinality(written[items[i].key]) = 2
        /\ \A w \in written[items[i].key] : Len(w[2]) > 0

C9_Step ==
    /\ (last'.op = "entry" /\ last'.res = "Occupied") =>
          /\ items' # <<>>
          /\ items'[Len(items')].key = last'.key
          /\ SizeOf(items', last'.key) = SizeOf(items, last'.key)
          /\ Without(items', last'.key) = Without(items, last'.key)
          /\ Len(items') = Len(items)
    /\ (last'.op = "insert_with" /\ items # <<>>) =>
          LET back == items[Len(items)].key
          IN  (back # last'.key /\ back \notin KeysOf(items'))
                  => KeysOf(items') \subseteq {last'.key}
C9_TouchOnRead == [][C9_Step]_vars

\* A lookup found the oldest of three entries and moved it to the back.
C9_Witness ==
    /\ Looked
    /\ last.pos = 1
    /\ Len(items) = 3
    /\ items[3].key = last.key

\* C10: a successful insert_with into an entry the index already holds makes
\* it the most recently used entry of the index.
C10_WriteRefreshes ==
    (Inserted /\ last.pos > 0) => items[Len(items)].key = last.key

(***************************************************************************)
(* Properties of recovery (SpecLife, SpecRecover)                          *)
(***************************************************************************)
Reopened == last.res = "Closed" /\ last'.op = "new" /\ last'.res = "Ok"
InOrderOfTime(m) ==
    \A i, j \in DOMAIN m : i < j => GroupTime(m[i].key) < GroupTime(m[j].key)

\* C11: when the entries of a Cache were written at strictly increasing
\* times, oldest first in the index, and the Cache is dropped and a new one
\* built on the root, the new index holds the same keys with the same
\* sizes in the same order; len() and size() are what they were before the
\* drop; and an insert never evicts an entry before one written earlier.
C11_Step ==
    /\ Reopened =>
          /\ Len(items') = Len(before)
          /\ Sum(items') = Sum(before)
          /\ InOrderOfTime(before) => items' = before
    /\ last'.op = "insert_with" =>
          \A i, j \in DOMAIN last'.evicted :
              i < j => GroupTime(last'.evicted[i]) <= GroupTime(last'.evicted[j])
C11_RecencyRoundTrip == [][C11_Step]_vars

\* A second Cache was built over three entries written at three different
\* times.
C11_Witness ==
    /\ nextIno > 2
    /\ last = NoOp
    /\ Len(items) = 3
    /\ InOrderOfTime(items)

Built == last.op = "new" /\ last.res = "Ok"
\* The directories of the root that hold at least one regular file.
WithFiles == {k \in dirs : FilesIn(k) # {}}

\* C12: when Cache::new has returned Ok over a populated root, each
\* directory of the root that holds at least one file has exactly one key in
\* the index, its size the sum of the lengths of the directory's files;
\* root/.lock has no key; len() is the number of these directories and
\* size() the total length of their files.
C12_RecoveryAccounting ==
    Built =>
        /\ \A k \in WithFiles :
              /\ Cardinality({i \in DOMAIN items : items[i].key = k}) = 1
              /\ SizeOf(items, k) = TotalLen(EntryFiles(k))
        /\ KeysOf(items) \subseteq WithFiles
        /\ Len(items) = Cardinality(WithFiles)
        /\ Sum(items) = TotalLen({<<<<f.key, f.name>>, f.bytes>> : f \in files})

\* Built over root/.lock, an empty directory and two entries, one of them
\* with two files of different lengths.
C12_Witness ==
    /\ Built
    /\ lockPath # NoIno
    /\ dirs = Keys
    /\ Len(items) = 2
    /\ \E f, g \in files : f.key = g.key /\ Len(f.bytes) = 1 /\ Len(g.bytes) = 2

\* C13: the index Cache::new builds is in ascending order of the entries'
\* latest file modification times: no file of an entry is newer than the
\* newest file of an entry behind it, so an entry with an old and a newer
\* file has the place of the newer; and the first insert that evicts after
\* Cache::new removes first a directory whose newest file is no newer than
\* the newest file of any other directory.
NoNewerThan(j, k) ==
    \A f \in FilesIn(j) : \E g \in FilesIn(k) : f.mtime <= g.mtime
C13_Step ==
    /\ (last'.op = "new" /\ last'.res = "Ok") =>
          \A i, j \in DOMAIN items' :
              i < j => NoNewerThan(items'[i].key, items'[j].key)
    /\ (last'.op = "insert_with" /\ last'.evicted # <<>>) =>
          \A k \in WithFiles : NoNewerThan(last'.evicted[1], k)
C13_RecoveryOrder == [][C13_Step]_vars

\* Built over two entries: the one at the back has a file older and a file
\* newer than the file of the one in front.
C13_Witness ==
    /\ Built
    /\ Len(items) = 2
    /\ \E f, g \in FilesIn(items[2].key) : \E h \in FilesIn(items[1].key) :
          f.mtime < h.mtime /\ h.mtime < g.mtime

\* C14: Cache::new fails with Error::Structure exactly when an object under
\* the root that is not a directory and not root/.lock has a path that is
\* not of two components.
Objects == {<<f.key, f.name>> : f \in files} \cup {o.path : o \in strays}
C14_StructureIff ==
    last.op = "new" =>
        (last.res = "Structure" <=> \E p \in Objects : Len(p) # 2)

(***************************************************************************)
(* Properties of keys and names (SpecPath)                                 *)
(***************************************************************************)
\* C15: entry with a key that check_path refuses returns InvalidKey, and
\* insert_with with a name that check_path refuses returns InvalidName; the
\* call leaves every directory, file and modification time, the index and
\* what the writers have written as they were.
C15_Step ==
    /\ (last'.op = "entry" /\ ~CheckPath(Chars(last'.key)))
          => last'.res = "InvalidKey"
    /\ (last'.op = "insert_with" /\ ~CheckPath(Chars(last'.name)))
          => last'.res = "InvalidName"
    /\ last'.res \in {"InvalidKey", "InvalidName"}
          => UNCHANGED <<dirs, files, strays, items, written>>
C15_ValidationFirst == [][C15_Step]_vars

\* The name ".." was refused for an entry that has no directory yet, beside
\* an entry that has files.
C15_Witness ==
    /\ last.res = "InvalidName"
    /\ last.name = ".."
    /\ last.key \notin dirs
    /\ files # {}

\* C16: check_path accepts a string exactly when it is not empty, its first
\* character is alphanumeric and every later character is alphanumeric or
\* '.'; what it accepts is not ".lock", not ".", not ".." and holds no path
\* separator; entry returns InvalidKey and insert_with InvalidName for the
\* other strings and for no string that it accepts.
Alphabet == {"a", "0", ".", "/", "_"}
WellFormed(str) ==
    /\ Len(str) > 0
    /\ str[1] \in Alphanumeric
    /\ \A i \in DOMAIN str : i > 1 => str[i] \in Alphanumeric \cup {"."}
OneComponent(str) ==
    /\ str \notin {<<>>, <<".">>, <<".", ".">>, Chars(".lock")}
    /\ \A i \in DOMAIN str : str[i] # "/"
C16_Charset ==
    /\ \A str \in SeqsUpTo(Alphabet, MaxStr) \cup {Chars(x) : x \in Refused} :
          /\ CheckPath(str) <=> WellFormed(str)
          /\ CheckPath(str) => OneComponent(str)
    /\ last.op = "entry" =>
          (last.res = "InvalidKey" <=> ~WellFormed(Chars(last.key)))
    /\ last.op = "insert_with" =>
          (last.res = "InvalidName" <=> ~WellFormed(Chars(last.name)))
    /\ \A k \in dirs \cup vacant : OneComponent(Chars(k))
    /\ \A f \in files : OneComponent(Chars(f.name))

\* A file whose name holds a dot was written, and then the key ".lock"
\* was refused.
C16_Witness ==
    /\ last.res = "InvalidKey"
    /\ last.key = ".lock"
    /\ \E f \in files : f.name = "a.b"

(***************************************************************************)
(* Properties of entries (Spec, SpecRecover)                               *)
(***************************************************************************)
\* C17: entry(key) returns Vacant when root/<key> does not exist, and the
\* call leaves the directories, the files and their modification times,
\* and the keys, sizes and order of the index as they were.
C17_Step ==
    /\ (last'.op = "entry" /\ last'.key \notin dirs) => last'.res = "Vacant"
    /\ last'.res = "Vacant" =>
          /\ last'.key \notin dirs'
          /\ UNCHANGED <<dirs, files, strays, items>>
C17_VacantChangesNothing == [][C17_Step]_vars

\* A Vacant lookup of a key that has no directory, beside two entries.
C17_Witness ==
    /\ last.res = "Vacant"
    /\ last.key \notin dirs
    /\ Len(items) = 2
    /\ Cardinality(files) >= 2

\* C18: when an insert evicts K, the directory of K and every file in it
\* are gone and the index no longer holds K, so that len() and size() do
\* not count it, and the lookup of K that follows returns Vacant; every
\* file of an entry that was not evicted is still there.
RECURSIVE SizesOf(_, _)
SizesOf(m, ks) ==
    IF ks = {} THEN 0
    ELSE LET k == CHOOSE k \in ks : TRUE IN SizeOf(m, k) + SizesOf(m, ks \ {k})
C18_Step ==
    /\ (last'.op = "insert_with" /\ last'.res = "Ok") =>
          LET gone == Range(last'.evicted)
          IN  /\ gone \cap dirs' = {}
              /\ \A f \in files' : f.key \notin gone
              /\ gone \cap KeysOf(items') = {}
              /\ Len(items') = Cardinality((KeysOf(items) \ gone) \cup {last'.key})
              /\ Sum(items') = Sum(items) - SizesOf(items, gone) + last'.sz
              /\ \A f \in files : f.key \notin gone => f \in files'
    /\ (last.op = "insert_with" /\ last'.op = "entry"
            /\ last'.key \in Range(last.evicted)) => last'.res = "Vacant"
C18_EvictionRemovesAll == [][C18_Step]_vars

\* An insert evicted one of two entries; the other kept its files.
C18_Witness ==
    /\ Inserted
    /\ Len(last.evicted) = 1
    /\ Len(items) = 2
    /\ \E f \in files : f.key # last.key

\* C19: entry(K) returns Occupied exactly when the directory root/K exists
\* and Vacant exactly when it does not; root/K comes to exist only by a
\* successful insert_with on K, and ceases to exist only by the eviction of
\* K in an insert into another key.
C19_Step ==
    /\ (last'.op = "entry" /\ last'.res # "InvalidKey") =>
          /\ last'.res = "Occupied" <=> last'.key \in dirs'
          /\ last'.res = "Vacant" <=> last'.key \notin dirs'
    /\ \A k \in dirs' \ dirs :
          last'.op = "insert_with" /\ last'.res = "Ok" /\ last'.key = k
    /\ \A k \in dirs \ dirs' :
          /\ last'.op = "insert_with"
          /\ last'.key # k
          /\ k \in Range(last'.evicted)
C19_EntryStateMachine == [][C19_Step]_vars

(***************************************************************************)
(* Properties of the release of the lock (SpecRelease)                     *)
(***************************************************************************)
\* C20: the drop of a Cache frees the lock before it removes root/.lock,
\* and ends whether or not the removal succeeds; root/.lock left behind
\* keeps no Cache::new from the lock: Cache::new is refused only while
\* another instance is live.
C20_Step ==
    \A i \in Inst :
        /\ (pc[i] = "unlocked" /\ pc'[i] # "unlocked") =>
              /\ pc'[i] = "idle"
              /\ fd[i] = NoIno
              /\ \A n \in Inodes : flock[n] # i
              /\ lockPath' \in {lockPath, NoIno}
        /\ (pc[i] = "live" /\ pc'[i] # "live") =>
              /\ pc'[i] = "unlocked"
              /\ lockPath' = lockPath
        /\ (pc[i] = "opened" /\ res'[i] = "AlreadyLocked") =>
              \E j \in Inst \ {i} : pc[j] = "live"
C20_LockRelease == [][C20_Step]_vars

\* One instance was dropped and root/.lock, the only one ever created,
\* stayed; another instance then took the lock.
C20_Witness ==
    \E i, j \in Inst :
        /\ i # j
        /\ nextIno = 2
        /\ lockPath = 1
        /\ pc[i] = "idle" /\ res[i] = "Ok"
        /\ pc[j] = "live" /\ liveDuring[j] = {}
        /\ \A o \in Inst \ {i, j} : res[o] = "none"

(***************************************************************************)
(* Properties of the directory enumerator (SpecWalkDir)                    *)
(***************************************************************************)
IsUnder(p, root) == Len(p) >= Len(root) /\ SubSeq(p, 1, Len(root)) = root
\* The regular files and the directories at and under the root.
UnderRoot == {o \in tree : o.kind \in {"file", "dir"} /\ IsUnder(o.path, Root)}
Items == {i \in DOMAIN yielded : yielded[i].ok}

\* C21: the stream of WalkDir yields each regular file and each directory
\* at or under its root once and no more, tagged as a directory exactly
\* when it is one, and yields no path outside the root; when the stream has
\* ended, none of them is missing.
C21_WalkComplete ==
    /\ \A i \in Items :
          /\ \E o \in UnderRoot :
                o.path = yielded[i].path /\ (yielded[i].is_dir <=> o.kind = "dir")
          /\ \A j \in Items : yielded[j].path = yielded[i].path => j = i
    /\ stream = "ended" =>
          {yielded[i].path : i \in Items} = {o.path : o \in UnderRoot}

\* The stream has ended over a tree four levels deep with a link back to the
\* root, the directory b handed to the WalkDir a second time through a link.
C21_Witness ==
    /\ stream = "ended"
    /\ Exists(<<"ln">>)
    /\ \E i \in Items : yielded[i].path = <<"r", "b", "c", "d">> /\ ~yielded[i].is_dir
    /\ \E i \in Items : yielded[i].path = <<"r", "b", "c">> /\ yielded[i].is_dir
    /\ \E o \in tree : o.path = <<"r", "a">> /\ o.kind = "link"

(***************************************************************************)
(* Properties of failing inserts (SpecFail)                                *)
(***************************************************************************)
Holds(k, name) == \E f \in files : f.key = k /\ f.name = name

\* C22: insert_with with a name that the directory of the entry holds
\* already returns InsertError::Create; the writer is not called, and the
\* directories, the files with their contents and times, and the keys,
\* sizes and order of the index are as they were.
C22_Step ==
    (last'.op = "insert_with" /\ Holds(last'.key, last'.name)) =>
        /\ last'.res = "Create"
        /\ last'.sz = 0
        /\ UNCHANGED <<dirs, files, items, written>>
C22_NameTaken == [][C22_Step]_vars

\* The name was refused for an entry whose file of that name is not empty
\* and is counted in the index.
C22_Witness ==
    /\ last.op = "insert_with"
    /\ last.res = "Create"
    /\ \E f \in files : f.key = last.key /\ f.name = last.name /\ Len(f.bytes) = 2
    /\ Has(items, last.key)

\* C23: when the writer returns an error, insert_with returns
\* InsertError::Write; the directory of the entry and the file with what
\* the writer wrote are on disk; nothing was evicted or removed, and the
\* keys, sizes and order of the index are as they were.
C23_Step ==
    last'.res = "Write" =>
        /\ last'.key \in dirs'
        /\ \E f \in files' :
              f.key = last'.key /\ f.name = last'.name /\ Len(f.bytes) = last'.sz
        /\ last'.evicted = <<>>
        /\ dirs \subseteq dirs'
        /\ files \subseteq files'
        /\ items' = items
C23_WriterFailure == [][C23_Step]_vars

\* The writer failed after two bytes into a new entry, with the index at
\* its capacity: the file is there, the index does not hold the key.
C23_Witness ==
    /\ last.res = "Write"
    /\ last.sz = 2
    /\ ~Has(items, last.key)
    /\ Sum(items) = capacity
    /\ \E f \in FilesIn(last.key) : Len(f.bytes) = 2

\* The directory of k was made by an insert_with whose writer failed, and
\* holds nothing but the file of that call.
LeftByWriter(k) ==
    /\ last.res = "Write"
    /\ last.key = k
    /\ ~Has(items, k)
    /\ Cardinality(FilesIn(k)) = 1
Evicts == last'.op = "insert_with" /\ last'.res = "Ok" /\ last'.evicted # <<>>

\* C24: a directory left behind by an insert_with on a fresh key whose
\* writer failed is removed in the end, when inserts that evict keep
\* coming.
C24_Reclaimed ==
    \A k \in Keys :
        []<><<Evicts>>_vars => [](LeftByWriter(k) => <>(k \notin dirs))

\* An entry agrees with the disk: it has a key exactly when it has a
\* directory, and the size under the key is the length of its files.
Agrees(k, ds, fs, m) ==
    /\ k \in ds <=> Has(m, k)
    /\ Has(m, k) => SizeOf(m, k) = Bytes({f \in fs : f.key = k})

\* C25: when the removal of a candidate's directory fails in the eviction
\* pass, insert_with returns InsertError::Reserve; the size of the new file
\* is not added to the index; the index keeps every key but those evicted
\* before the failure, which have no directory, no file and no key left;
\* and when index and disk agreed before the call, they disagree afterwards
\* on no entry but the one written to.
C25_Step ==
    last'.res = "Reserve" =>
        /\ items' = WithoutAll(items, last'.evicted)
        /\ \A i \in DOMAIN items' :
              items'[i].key = last'.key => items'[i].size = SizeOf(items, last'.key)
        /\ \A g \in Range(last'.evicted) :
              g \notin dirs' /\ ~Has(items', g) /\ \A f \in files' : f.key # g
        /\ (\A j \in Keys : Agrees(j, dirs, files, items)) =>
              \A j \in Keys \ {last'.key} : Agrees(j, dirs', files', items')
C25_EvictionFailure == [][C25_Step]_vars

\* C28, as claimed: a key enters the index only in a successful insert_with
\* on it and leaves only in a successful insert_with that evicts it, and a
\* size changes only in a successful insert_with on its key: lookups,
\* size(), len(), capacity() and failed insert_with calls change none of
\* these; capacity() returns the capacity the Cache was built with.
C28_FrameAsClaimed ==
    /\ \A k \in KeysOf(items') \ KeysOf(items) :
          last'.op = "insert_with" /\ last'.res = "Ok" /\ last'.key = k
    /\ \A k \in KeysOf(items) \ KeysOf(items') :
          /\ last'.op = "insert_with"
          /\ last'.res = "Ok"
          /\ k \in Range(last'.evicted)
    /\ \A k \in KeysOf(items) \cap KeysOf(items') :
          SizeOf(items', k) # SizeOf(items, k) =>
              last'.op = "insert_with" /\ last'.res = "Ok" /\ last'.key = k
    /\ capacity' = capacity
    /\ last'.op = "capacity" => last'.sz = capacity
C28_OnlySuccessfulInserts == [][C28_FrameAsClaimed]_vars

\* C28, amended: a key enters the index only in a successful insert_with on
\* it; a key leaves only by eviction, in an insert_with that succeeds or in
\* one that fails with InsertError::Reserve after it evicted; a size
\* changes only in a successful insert_with on its key; lookups change the
\* order alone, and size(), len(), capacity() and insert_with calls that fail
\* before the registration change nothing; capacity() returns the capacity
\* the Cache was built with.
C28_Step ==
    /\ \A k \in KeysOf(items') \ KeysOf(items) :
          last'.op = "insert_with" /\ last'.res = "Ok" /\ last'.key = k
    /\ \A k \in KeysOf(items) \ KeysOf(items') :
          /\ last'.op = "insert_with"
          /\ last'.res \in {"Ok", "Reserve"}
          /\ k \in Range(last'.evicted)
    /\ \A k \in KeysOf(items) \cap KeysOf(items') :
          SizeOf(items', k) # SizeOf(items, k) =>
              last'.op = "insert_with" /\ last'.res = "Ok" /\ last'.key = k
    /\ last'.op \in {"size", "len", "capacity"} => items' = items
    /\ last'.res \in {"Create", "Write", "Metadata", "Reopen"} => items' = items
    /\ capacity' = capacity
    /\ last'.op = "capacity" => last'.sz = capacity
C28_IndexFrame == [][C28_Step]_vars

\* An insert_with that had evicted one entry failed on the next: a key left
\* the index in a call that returned an error.
C28_Witness ==
    /\ last.res = "Reserve"
    /\ Len(last.evicted) = 1
    /\ Len(items) = 1
    /\ ~Has(items, last.key)

(***************************************************************************)
(* Properties of tasks sharing the Cache (SpecTasks)                       *)
(***************************************************************************)
\* The task that takes the step.
Actor(t) == task'[t] # task[t]

\* C26: the index changes only in a step of the task that holds the mutex,
\* or in a touch, which takes the mutex free and is one step; from the
\* taking of the mutex to the registration the index is what it was when
\* the mutex was taken less what the pass has evicted, so that the pass
\* removes what was decided on that total and the registration leaves the
\* index Cache::insert computes from it: the index goes through the states
\* of the registrations and touches run one at a time.
C26_Step ==
    /\ \A t \in Tasks :
          /\ (mutex = t /\ items' # items) => Actor(t)
          /\ task'[t].pc = "locked" =>
                /\ mutex' = t
                /\ items' = WithoutAll(task'[t].snap, task'[t].evicted)
                /\ task'[t].evicted \o task'[t].todo =
                      Insert(capacity, task'[t].snap, task'[t].key,
                             Len(task'[t].bytes)).evicted
          /\ (task[t].pc = "locked" /\ task'[t].res = "Ok") =>
                items' = Insert(capacity, task[t].snap, task[t].key,
                                Len(task[t].bytes)).items
          /\ (task[t].pc = "opened" /\ Actor(t)) =>
                mutex = 0 /\ items' = GetRefresh(items, task[t].key)
    /\ items' # items =>
          \E t \in Tasks : Actor(t) /\ task[t].pc \in {"locked", "opened"}
C26_Linearized == [][C26_Step]_vars

\* In the middle of a pass that evicts two entries, the other task waits
\* for the mutex to touch the entry that goes next.
C26_Witness ==
    \E t, u \in Tasks :
        /\ task[t].pc = "locked"
        /\ Len(task[t].evicted) = 1
        /\ task[t].todo # <<>>
        /\ task[u].pc = "opened"
        /\ task[u].key = Head(task[t].todo)

\* Both tasks were handed the VacantEntry of k and have each made one
\* insert_with on it.
Pair(k) ==
    \A t \in Tasks :
        /\ task[t].pc = "idle"
        /\ task[t].op = "insert_with"
        /\ task[t].key = k
        /\ task[t].calls = 2

\* C27: when two tasks each call insert_with on the VacantEntry of the same
\* key, in any interleaving, then with two names both calls return Ok, both
\* files are on disk and the size under the key is the sum of their
\* lengths; with one name one call returns Ok, the other
\* InsertError::Create, and the size is the length of the file of the first.
C27_SameEntry ==
    \A k \in Keys :
        Pair(k) =>
            IF task[1].name # task[2].name
            THEN /\ \A t \in Tasks :
                       /\ task[t].res = "Ok"
                       /\ <<task[t].name, task[t].bytes>> \in EntryFiles(k)
                 /\ Has(items, k)
                 /\ SizeOf(items, k) = Len(task[1].bytes) + Len(task[2].bytes)
            ELSE \E t \in Tasks :
                    /\ task[t].res = "Ok"
                    /\ \A u \in Tasks \ {t} : task[u].res = "Create"
                    /\ EntryFiles(k) = {<<task[t].name, task[t].bytes>>}
                    /\ Has(items, k)
                    /\ SizeOf(items, k) = Len(task[t].bytes)

\* Two files of different lengths in one entry, the directory made by the
\* second task and found there by the first.
C27_Witness ==
    /\ Pair("three")
    /\ task[1].name # task[2].name
    /\ ~task[1].made
    /\ task[2].made
    /\ Len(task[1].bytes) # Len(task[2].bytes)
    /\ \A t \in Tasks : task[t].res = "Ok"

(***************************************************************************)
(* Properties of recovery, continued (SpecRecover, SpecShare)              *)
(***************************************************************************)
\* C29: after Cache::new has returned Ok, the keys of the index are the
\* directories of the root, one key each, and a directory that holds no
\* file has a key of size 0.
C29_KeysAreDirectories ==
    Built =>
        /\ KeysOf(items) = dirs
        /\ Len(items) = Cardinality(dirs)
        /\ \A k \in dirs : FilesIn(k) = {} => SizeOf(items, k) = 0

\* The instance holds the lock it took on root/.lock in Lock::new.
HoldsLock(i) == pc[i] = "live" /\ flock[fd[i]] = i

\* C30: the scan of Cache::new runs after the lock is taken, and every
\* lookup, insert and scan, and every change of the directories and files
\* under the root, happens while the instance holds the lock it took: none
\* before Lock::new has returned it, none after the Cache is dropped or its
\* construction has failed.
C30_Step ==
    /\ (last' # last /\ last'.op \in {"new", "entry", "insert_with"})
          => HoldsLock(Me)
    /\ <<dirs, files, items>>' # <<dirs, files, items>> => HoldsLock(Me)
    /\ Running' => HoldsLock(Me)'
C30_UnderLock == [][C30_Step]_vars

\* The second Cache of the process has inserted, after the other process
\* was refused the lock.
C30_Witness ==
    /\ Inserted
    /\ nextIno > 2
    /\ res[Rival] = "AlreadyLocked"
    /\ HoldsLock(Me)
    /\ Len(items) = 2

(***************************************************************************)
(* Properties of the disk and the index (SpecFail, SpecTasks)              *)
(***************************************************************************)
\* C31: with one task calling entry and insert_with, failing calls
\* included, every entry directory under the root has a key in the index,
\* and no lookup reaches the panic of occupied_entry.
C31_DiskImpliesIndex ==
    /\ \A k \in dirs : Has(items, k)
    /\ last.res # "panic"

\* C32: whatever a lookup of a key interleaves with, an insert_with into
\* the key that has created the directory and not yet registered the size,
\* or an eviction of the key after the lookup has read the directory, the
\* lookup returns Occupied, Vacant or an error: no task reaches the panic
\* of occupied_entry.
C32_LookupNeverPanics ==
    \A t \in Tasks : task[t].res # "panic" /\ task[t].pc # "aborted"

\* No task is inside a call.
Quiescent == \A t \in Tasks : task[t].pc \in {"idle", "aborted"}

\* C33: with insert_with calls of several tasks interleaved, once all calls
\* have returned every key of the index has its directory on disk, and no
\* eviction has failed on a directory that was missing.
C33_IndexImpliesDisk ==
    /\ Quiescent => \A k \in KeysOf(items) : k \in dirs
    /\ \A t \in Tasks : task[t].res # "Reserve"

\* Each key of the index has the size of the files its directory holds, and
\* size() is the total of the files under the root.
Accurate ==
    /\ \A i \in DOMAIN items : items[i].size = Bytes(FilesIn(items[i].key))
    /\ Sum(items) = Bytes(files)

\* C34: in a quiescent state of a run in which no insert_with has failed,
\* the index size of each key is the sum of the lengths of the files in the
\* key's directory, and size() is the total of all entry files under the
\* root. (Each task has made one call at most, so that its last result is
\* all it has returned.)
C34_AccountingAccuracy ==
    (/\ Quiescent
     /\ \A t \in Tasks : task[t].calls <= 1 /\ task[t].res \in {"none", "Ok"})
        => Accurate

(***************************************************************************)
(* Recency in memory and on disk (SpecRecency)                             *)
(***************************************************************************)
\* The keys of the index, oldest first.
KeySeq(m) == [i \in DOMAIN m |-> m[i].key]

\* C35: after successful inserts, several into one entry among them, and
\* Occupied lookups of one task under a strictly increasing clock, the
\* order of the index is the ascending order of the entries' latest
\* modification times on disk: the order Cache::new would recover.
C35_RecencyAgrees == Running => KeySeq(items) \in Sorted

(***************************************************************************)
(* Properties of a failed Cache::new (SpecLock, SpecShare)                 *)
(***************************************************************************)
\* Instance h holds the lock of the file that is linked at root/.lock: a
\* Cache::new that starts now opens the file h has locked.
Excludes(h) == HoldsLock(h) /\ lockPath = fd[h]

\* C36: a Cache::new that fails with AlreadyLocked leaves root/.lock linked
\* as it was, leaves every flock with its holder and leaves the other
\* instances as they were, so an instance that excluded a later Cache::new
\* before the failure excludes it after; and a Cache::new that has opened
\* the file a live instance holds locked does not return Ok.
C36_Step ==
    \A i \in Inst :
        /\ (pc[i] = "opened" /\ res'[i] = "AlreadyLocked") =>
              /\ lockPath' = lockPath
              /\ flock' = flock
              /\ \A h \in Inst \ {i} :
                    /\ pc'[h] = pc[h]
                    /\ fd'[h] = fd[h]
                    /\ Excludes(h) => Excludes(h)'
        /\ (pc[i] = "opened" /\ \E h \in Inst \ {i} : HoldsLock(h) /\ fd[h] = fd[i])
              => res'[i] # "Ok"
C36_FailedAcquireHarmless == [][C36_Step]_vars

\* An instance was refused, and the live instance holds the lock of the
\* file linked at root/.lock as before.
C36_Witness ==
    \E h, j \in Inst :
        /\ h # j
        /\ Excludes(h)
        /\ res[j] = "AlreadyLocked"
        /\ pc[j] = "idle"

\* C37: a Cache::new that took the lock and then fails, on canonicalize, on
\* the enumerator, on the structure or on a file's metadata, frees the lock
\* and then removes root/.lock before it returns the error; once it has
\* returned the process holds no lock, and a later Cache::new is refused
\* with AlreadyLocked only by the lock of another live instance.
C37_Step ==
    /\ (pc[Me] = "live" /\ last'.res \in Failures /\ pc'[Me] # "live") =>
          /\ pc'[Me] = "unlocked"
          /\ fd'[Me] = NoIno
          /\ \A n \in Inodes : flock'[n] # Me
    /\ (pc[Me] = "unlocked" /\ pc'[Me] # "unlocked") =>
          /\ pc'[Me] = "idle"
          /\ lockPath' = NoIno
    /\ (last.res \in Failures /\ pc[Me] \in {"idle", "opened"}) =>
          \A n \in Inodes : flock[n] # Me
    /\ (pc[Me] = "live" /\ last.res \in {"Closed"} \cup Failures) =>
          \/ pc'[Me] = "live" /\ (Running' \/ last' = last)
          \/ pc'[Me] = "unlocked" /\ last'.res \in Failures
    /\ (pc[Me] = "opened" /\ res'[Me] = "AlreadyLocked") =>
          \E j \in Inst \ {Me} : HoldsLock(j) /\ fd[j] = fd[Me]
C37_NoLeak == [][C37_Step]_vars

\* A construction failed after it had the lock, returned, and the next
\* Cache::new of the process has the lock of a new root/.lock.
C37_Witness ==
    /\ last.res \in Failures
    /\ HoldsLock(Me)
    /\ fd[Me] > 1
    /\ lockPath = fd[Me]

(***************************************************************************)
(* Properties of recovery over a full root (SpecRecover)                   *)
(***************************************************************************)
\* C38: when Cache::new has recovered several entries whose total exceeds
\* the capacity, the first successful insert_with evicts oldest entries
\* until size() <= capacity() or only the entry written into remains.
C38_Step ==
    (/\ last.op # "insert_with"
     /\ last'.op = "insert_with" /\ last'.res = "Ok"
     /\ Len(items) >= 2
     /\ Sum(items) > capacity)
        => \/ Sum(items') <= capacity
           \/ KeysOf(items') \subseteq {last'.key}
C38_CapacityRestored == [][C38_Step]_vars

(***************************************************************************)
(* Termination of the directory enumerator (SpecWalkDirFair)               *)
(***************************************************************************)
\* C39: polled on, the stream of WalkDir ends on every tree, trees with
\* symbolic links that close a cycle or lead to one directory by several
\* paths included; it has ended only with nothing left unvisited; and no
\* canonical path is expanded twice: the stream yields no directory a
\* second time and no more items than the root holds files and directories.
C39_Terminates ==
    /\ <>(stream = "ended")
    /\ [](stream = "ended" => unvisited = {})
    /\ [](\A i, j \in Items :
             yielded[i].is_dir /\ yielded[i].path = yielded[j].path => i = j)
    /\ [](Cardinality(Items) <= Cardinality(UnderRoot))

\* The stream has ended over a tree in which the link c in b leads back to
\* b and the link a leads back to the root, the directory b handed to the
\* WalkDir through the link ln besides.
C39_Witness ==
    /\ stream = "ended"
    /\ unvisited = {}
    /\ \E o \in tree : o.path = <<"ln">> /\ o.kind = "link"
    /\ \E o \in tree : o.path = <<"r", "b", "c">> /\ o.kind = "link"
                          /\ o.target = <<"r", "b">>
    /\ \E o \in tree : o.path = <<"r", "a">> /\ o.kind = "link"
    /\ \E i \in Items : yielded[i].path = <<"r", "b">> /\ yielded[i].is_dir

====
